---- MODULE Spec2Model ----
(***************************************************************************)
(* Model of complete_website_analyzer.py: the retrying fetch functions,    *)
(* the crawl loop of ComprehensiveLinkDiscoverer.discover_all_links, the   *)
(* page-analysis phase and the batch driver that runs several crawls on    *)
(* one shared analyzer object.                                             *)
(***************************************************************************)
EXTENDS Integers, Sequences, FiniteSets, Bags, TLC

\* ------------------------------------------------------------------------
\* Configuration (EnhancedAnalyzerConfig).  The page and depth budgets are
\* scaled down so that the budgets are reached on a small site.
\* ------------------------------------------------------------------------
PageBudget == 5
DepthBudget == 2
MaxLinks == 2
NumCrawls == 2
JitterSteps == 2
WorkerBound == 2
MaxAnchors == 2
MaxPages == 2
MaxTotalPages == 60

MAX_PAGES_PER_SITE == PageBudget
MAX_CRAWL_DEPTH == DepthBudget
MIN_HTML_LENGTH == 1000
MAX_RETRIES == 3
DELAY_BETWEEN_REQUESTS == 20
MAX_WORKERS == WorkerBound

\* Python's None, and a value that is not None: an Optional is a set of at
\* most one element.
None == {}
Some(x) == {x}

\* ------------------------------------------------------------------------
\* URLs.  A small universe of absolute URLs with their network locations.
\* ------------------------------------------------------------------------
URLS == {"https://a.com/", "https://a.com/about", "https://www.a.com/shop",
         "https://a.com/blog", "https://a.com/team", "https://a.com/faq",
         "https://b.org/"}

\* urlparse(url).netloc
Netloc(url) ==
  CASE url = "https://www.a.com/shop" -> "www.a.com"
    [] url \in {"https://b.org/", "https://b.org/contact"} -> "b.org"
    [] url = "https://www.facebook.com/acme" -> "www.facebook.com"
    [] url = "https://dropbox.com/acme" -> "dropbox.com"
    [] url = "https://maps.google.com/?q=acme" -> "maps.google.com"
    [] url \in {"https://www.google.com/maps/place/acme",
               "https://www.google.com/maps/place/Acme+HQ"} -> "www.google.com"
    [] url = "https://goo.gl/maps/abc" -> "goo.gl"
    [] url = "https://maps.app.goo.gl/xyz" -> "maps.app.goo.gl"
    [] url \in {"mailto:info@a.com", "tel:+15550100", "javascript:void(0)"} -> ""
    [] OTHER -> "a.com"

\* netloc.replace("www.", "")
StripWww(netloc) ==
  CASE netloc = "www.a.com" -> "a.com"
    [] netloc = "www.facebook.com" -> "facebook.com"
    [] netloc = "www.google.com" -> "google.com"
    [] OTHER -> netloc

\* urlparse(url).scheme
Scheme(url) ==
  CASE url = "mailto:info@a.com" -> "mailto"
    [] url = "tel:+15550100" -> "tel"
    [] url = "javascript:void(0)" -> "javascript"
    [] OTHER -> "https"

\* needle in hay, for the needles the program looks for in the urls and
\* the domains of the universe
Contains(needle, hay) ==
  \/ needle = hay
  \/ <<needle, hay>> \in
       {<<"x.com", "dropbox.com">>,
        <<"maps.google.com", "https://maps.google.com/?q=acme">>,
        <<"google.com/maps", "https://www.google.com/maps/place/acme">>,
        <<"goo.gl/maps", "https://goo.gl/maps/abc">>,
        <<"maps.app.goo.gl", "https://maps.app.goo.gl/xyz">>,
        <<"#", "https://a.com/about#team">>, <<"#", "https://a.com/#top">>,
        <<"about", "https://a.com/about">>, <<"about", "https://a.com/about#team">>,
        <<"team", "https://a.com/team">>, <<"team", "https://a.com/about#team">>,
        <<"contact", "https://b.org/contact">>, <<"contact", "contact us">>,
        <<"contact", "https://a.com/contact">>,
        <<"google.com/maps", "https://www.google.com/maps/dir/home/acme">>,
        <<"google.com/maps/dir/", "https://www.google.com/maps/dir/home/acme">>,
        <<"google.com/maps", "https://www.google.com/maps?q=40.0,-73.9">>,
        <<"google.com/maps",
          "https://www.google.com/maps/search/1+Main+St,+Springfield">>,
        <<"google.com/maps", "https://www.google.com/maps/place/acme+hq">>,
        <<"google.com/maps/place/", "https://www.google.com/maps/place/acme">>,
        <<"google.com/maps/place/", "https://www.google.com/maps/place/acme+hq">>,
        <<"mail", "mailto:info@a.com">>, <<"tel", "tel:+15550100">>}

Crawls == 1..NumCrawls

\* ------------------------------------------------------------------------
\* The Fetch Port's answers.  A body is its length and the one phrase that
\* tells it apart ("" for an ordinary page); an answer is an exception of
\* requests or a response with a status and a body.
\* ------------------------------------------------------------------------
STATUSES == {200, 403, 404, 429, 500, 502, 503, 504}
PHRASES == {"", "Just a moment...", "captcha", "Page Not Found"}
BODIES == {[len |-> 0, text |-> ""]} \cup
          [len : {MIN_HTML_LENGTH, MIN_HTML_LENGTH + 1}, text : PHRASES]
RESPONSES == [kind : {"response"}, status : STATUSES, body : BODIES] \cup
             [kind : {"Timeout", "ConnectionError"}, status : {0},
              body : {[len |-> 0, text |-> ""]}]

ERROR_PATTERNS == <<"520: Web server is returning an unknown error",
                    "Just a moment...", "Not Found", "Access Denied",
                    "Service Unavailable", "Cloudflare", "captcha",
                    "security check", "Page Not Found", "404 Error",
                    "503 Service Unavailable">>

\* html.lower()
Lower(text) ==
  CASE text = "Just a moment..." -> "just a moment..."
    [] text = "Page Not Found" -> "page not found"
    [] text = "Contact us" -> "contact us"
    [] text = "https://www.google.com/maps/place/Acme+HQ" ->
         "https://www.google.com/maps/place/acme+hq"
    [] OTHER -> text

is_maps_link(url) ==
  LET url_lower == Lower(url)
  IN  \/ Contains("google.com/maps", url_lower)
      \/ Contains("goo.gl/maps", url_lower)
      \/ Contains("maps.google.com", url_lower)
      \/ Contains("maps.app.goo.gl", url_lower)

\* re.search(pattern, text): the pattern is the text or lies inside it
Search(pattern, text) ==
  \/ pattern = text
  \/ <<pattern, text>> \in {<<"Not Found", "Page Not Found">>}

detect_page_errors(html) ==
  LET html_lower == Lower(html.text)
  IN  \E i \in 1..Len(ERROR_PATTERNS) : Search(ERROR_PATTERNS[i], html_lower)

should_retry_fetch(status_code, html) ==
  IF status_code \in {429, 500, 502, 503, 504} THEN TRUE
  ELSE IF detect_page_errors(html) THEN TRUE
  ELSE FALSE

\* 2 ** n
RECURSIVE Pow2(_)
Pow2(n) == IF n = 0 THEN 1 ELSE 2 * Pow2(n - 1)

\* Waits are counted in ticks of 1/JitterSteps second; random.uniform(0, 1)
\* is one of the ticks of [0, 1).
Jitter == 0..(JitterSteps - 1)

\* handle_fetch_error: the sleeps it can make (the empty set: none)
handle_fetch_error(status_code, html, attempt, max_retries) ==
  IF should_retry_fetch(status_code, html) /\ attempt < max_retries
  THEN {Pow2(attempt) * JitterSteps + j : j \in Jitter}
  ELSE {}

LoopExhaustedOffByOne(attempt, retries) == attempt > retries

\* The range of the for loop of both retrying fetches
LoopExhausted(attempt, retries) == attempt >= retries

\* One pass of the loop body of fetch_with_error_handling on answer r:
\* [ret, html, status, waits] with waits the waits the pass can make.
fetch_with_error_handling_pass(r, attempt, max_retries) ==
  IF r.kind = "response"
  THEN IF detect_page_errors(r.body)
       THEN [ret |-> FALSE, html |-> None, status |-> None,
             waits |-> handle_fetch_error(r.status, r.body, attempt, max_retries)]
       ELSE [ret |-> TRUE, html |-> Some(r.body), status |-> Some(r.status), waits |-> {}]
  ELSE [ret |-> FALSE, html |-> None, status |-> None,
        waits |-> IF attempt < max_retries - 1
                  THEN {Pow2(attempt) * JitterSteps + j : j \in Jitter}
                  ELSE {}]

\* One pass of the loop body of EnhancedHTTPClient.get_with_retry
get_with_retry_pass(r, attempt, retries) ==
  IF r.kind = "response"
  THEN IF r.status = 200 /\ r.body.len > MIN_HTML_LENGTH
       THEN [ret |-> TRUE, html |-> Some(r.body), status |-> Some(r.status), waits |-> {}]
       ELSE IF r.status \in {403, 404, 500, 503}
       THEN [ret |-> TRUE, html |-> None, status |-> Some(r.status), waits |-> {}]
       ELSE [ret |-> FALSE, html |-> None, status |-> None, waits |-> {}]
  ELSE [ret |-> FALSE, html |-> None, status |-> None,
        waits |-> IF attempt < retries - 1
                  THEN {DELAY_BETWEEN_REQUESTS * (attempt + 1) * JitterSteps}
                  ELSE {}]

\* get_with_retry as one call, on the answers the Fetch Port gives to its
\* successive requests: the pair (html, status) it returns.
RECURSIVE get_with_retry_from(_, _, _)
get_with_retry_from(answers, attempt, retries) ==
  IF LoopExhausted(attempt, retries)
  THEN [html |-> None, status |-> None]
  ELSE LET p == get_with_retry_pass(answers[attempt + 1], attempt, retries)
       IN  IF p.ret THEN [html |-> p.html, status |-> p.status]
           ELSE get_with_retry_from(answers, attempt + 1, retries)

get_with_retry(answers) == get_with_retry_from(answers, 0, MAX_RETRIES)

\* "not html"
Falsy(html) == html = None \/ html = Some([len |-> 0, text |-> ""])

\* The answers the crawl is run against: a good page, a challenge page
\* served with status 200, a 503 and a timeout.
CRAWL_ANSWERS ==
  {[kind |-> "response", status |-> 200,
    body |-> [len |-> MIN_HTML_LENGTH + 1, text |-> ""]],
   [kind |-> "response", status |-> 200,
    body |-> [len |-> MIN_HTML_LENGTH + 1, text |-> "Just a moment..."]],
   [kind |-> "response", status |-> 503,
    body |-> [len |-> MIN_HTML_LENGTH, text |-> ""]],
   [kind |-> "Timeout", status |-> 0, body |-> [len |-> 0, text |-> ""]]}

\* What get_with_retry can return to the crawl
CrawlFetchResults == {get_with_retry(a) : a \in [1..MAX_RETRIES -> CRAWL_ANSWERS]}

\* ------------------------------------------------------------------------
\* Link classification (_classify_and_store_link) on the URL universe, none
\* of whose hosts is a social or a map host.
\* ------------------------------------------------------------------------
\* SOCIAL_DOMAINS, contact_keywords and is_maps_link of extract_clickable_links
SOCIAL_DOMAINS == {"facebook.com", "twitter.com", "instagram.com", "linkedin.com",
                   "youtube.com", "pinterest.com", "tumblr.com", "reddit.com",
                   "snapchat.com", "whatsapp.com", "t.me", "weibo.com", "vk.com"}
CLICKABLE_CONTACT_KEYWORDS == {"contact", "call us", "call", "reach us", "reach",
                               "email", "phone", "tel", "mail", "contact us"}

\* self.contact_keywords, self.social_domains
CONTACT_KEYWORDS == {"contact", "about", "team", "staff", "location", "office",
                     "reach", "touch", "support", "help", "customer-service"}
SOCIAL_DOMAINS_LIST == {"facebook.com", "instagram.com", "twitter.com", "x.com",
                        "linkedin.com", "youtube.com", "tiktok.com", "pinterest.com"}

\* any(keyword in url_lower for keyword in self.contact_keywords)
HasContactKeyword(url) == \E keyword \in CONTACT_KEYWORDS : Contains(keyword, url)

\* link_info.link_type as _classify_and_store_link sets it
LinkType(url, root) ==
  LET link_domain == StripWww(Netloc(url))
  IN  IF link_domain = StripWww(Netloc(root)) THEN "internal"
      ELSE IF \E social \in SOCIAL_DOMAINS_LIST : Contains(social, link_domain)
      THEN "social"
      ELSE IF Contains("maps.google.com", url) \/ Contains("google.com/maps", url)
      THEN "maps"
      ELSE "external"

classify_and_store_link(sm, url) ==
  LET link_type == LinkType(url, sm.main_url)
  IN  CASE link_type = "internal" ->
             [sm EXCEPT !.internal_links = @ \cup {url},
                        !.contact_links = IF HasContactKeyword(url) THEN @ \cup {url} ELSE @]
        [] link_type = "social" -> [sm EXCEPT !.social_links = @ \cup {url}]
        [] link_type = "maps" -> [sm EXCEPT !.maps_links = @ \cup {url}]
        [] OTHER -> [sm EXCEPT !.external_links = @ \cup {url}]

_assess_website_complexity_Strict(total_pages) ==
  IF total_pages > 50 THEN "Complex"
  ELSE IF total_pages > 20 THEN "Moderate"
  ELSE IF total_pages > 6 THEN "Simple"
  ELSE "Basic"

_assess_website_complexity(total_pages) ==
  IF total_pages >= 50 THEN "Complex"
  ELSE IF total_pages >= 20 THEN "Moderate"
  ELSE IF total_pages >= 6 THEN "Simple"
  ELSE "Basic"

\* SiteMap(domain=domain, main_url=main_url); each list of links is kept as
\* the set of the URLs in it (maps_links is google_maps_info.maps_links),
\* and the counter total_links is left out.
NewSiteMap(url) ==
  [domain |-> StripWww(Netloc(url)), main_url |-> url, total_pages |-> 0,
   internal_links |-> {}, external_links |-> {}, social_links |-> {},
   maps_links |-> {}, contact_links |-> {}, crawl_depth_reached |-> 0,
   website_structure_complexity |-> "Unknown"]

NoTask == [url |-> "", depth |-> 0, by |-> 0]

VARIABLES
  discovered_urls,   \* ComprehensiveLinkDiscoverer.discovered_urls (one per analyzer)
  url_queue,         \* ComprehensiveLinkDiscoverer.url_queue: tasks [url, depth, by]
  pc,                \* position of each crawl invocation
  main_url,          \* argument of each crawl invocation
  cur,               \* (current_url, depth) of each crawl invocation
  link,              \* link_info.url of the pass of the for loop under way ("": none)
  nlinks,            \* how many links of page_links the for loop has taken
  sitemap,           \* the SiteMap each crawl invocation builds
  enq_log,           \* history: every accepted enqueue [url, depth, by, src], in order
  deq_log,           \* history: the tasks each crawl invocation dequeued
  fetch_log,         \* history: the tasks whose page the crawl loop fetched
  processed_urls,    \* the module's set processed_urls
  f_fn,              \* the function a worker runs: "analyze" or "fetch"
  f_url,             \* its url argument
  f_pc,              \* its position
  f_attempt,         \* attempt of the retry loop under way
  f_requests,        \* history: the requests the retry loop has issued
  f_last,            \* history: the Fetch Port's last answer
  f_waits,           \* history: the sleeps of the retry loop, [attempt, wait]
  f_result,          \* (html, status) of the retrying fetch, then of the page
  page_data,         \* what _analyze_single_page_enhanced returns
  r_pc,              \* analyze_website_comprehensive: the phase of the run of one site
  g_pc,              \* position of each thread of the run that fetches
  g_url,             \* the url each of them works on
  g_attempt,         \* attempt of its retry loop
  g_result,          \* (html, status) it holds
  todo,              \* urls_to_analyze whose future has not started
  pages_data,        \* pages_data of _analyze_all_discovered_pages
  built,             \* history: the urls a PageMetadata was built for
  exhausted,         \* history: [url, phase] of every fetch all attempts of which failed
  late_requests,     \* history: the urls requested after such a failure
  s_pc,              \* the batch driver: the phase of the run of each site
  s_todo,            \* urls_to_analyze of each site whose future has not started
  w_pc,              \* position of each thread of the pool of each site
  w_url,             \* the url it works on
  s_pages,           \* pages_data of each site
  s_first,           \* the url of pages_data[0] of each site, "" while it is empty
  analysed,          \* history: the urls whose fetch and parse began, as a bag
  l_pc,              \* the discovery of the links of one page: its position
  l_page,            \* the anchors of the page, soup.find_all('a', href=True)
  l_links,           \* page_links, what _extract_all_links_from_page returned
  l_sitemap,         \* the SiteMap the links of the page are stored in
  m_pc,              \* detect_all_google_maps: its position
  m_pages,           \* its argument pages_data
  m_next,            \* the index of the next page of its for loop
  all_maps_found,    \* its local set all_maps_found
  maps_info,         \* the GoogleMapsInfo it builds
  c_pc,              \* _assess_website_complexity: its position
  c_sitemap,         \* its argument sitemap
  r_return,          \* what analyze_website_comprehensive returned: "none" while it runs
  r_files,           \* the files the run has written
  r_raised           \* what raised in the run: "none", a collaborator, a save, the report

crawl_vars == <<discovered_urls, url_queue, pc, main_url, cur, link, nlinks,
                sitemap, enq_log, deq_log, fetch_log>>

fetch_vars == <<processed_urls, f_fn, f_url, f_pc, f_attempt, f_requests,
                f_last, f_waits, f_result, page_data>>

run_vars == <<r_pc, g_pc, g_url, g_attempt, g_result, todo, pages_data,
              built, exhausted, late_requests>>

\* The variables of the sections after the run of one site
site_vars == <<s_pc, s_todo, w_pc, w_url, s_pages, s_first, analysed>>

link_vars == <<l_pc, l_page, l_links, l_sitemap>>

maps_vars == <<m_pc, m_pages, m_next, all_maps_found, maps_info>>

tier_vars == <<c_pc, c_sitemap>>

report_vars == <<r_return, r_files, r_raised>>

more_vars == <<tier_vars, report_vars>>

\* The variables of the other sections that the phases of a run after the
\* analysis of the pages leave alone
past_run == <<site_vars, link_vars, maps_vars, tier_vars>>

page_vars == <<link_vars, maps_vars, more_vars>>

beyond_run == <<site_vars, page_vars>>

rest_vars == <<run_vars, beyond_run>>

vars == <<crawl_vars, fetch_vars, rest_vars>>


\* ------------------------------------------------------------------------
\* discover_all_links, one step per statement that reads or writes the
\* frontier (self.url_queue, self.discovered_urls).
\* ------------------------------------------------------------------------
Max(a, b) == IF a >= b THEN a ELSE b

\* The loop test of discover_all_links
LoopGuardBudgetOnly(queue, discovered) ==
  Cardinality(discovered) < MAX_PAGES_PER_SITE

LoopGuard(queue, discovered) ==
  queue # <<>> /\ Cardinality(discovered) < MAX_PAGES_PER_SITE

EnqueueGuardNoDedup(link_type, url, discovered, depth) ==
  link_type = "internal" /\ depth < MAX_CRAWL_DEPTH

EnqueueGuardDepthOffByOne(link_type, url, discovered, depth) ==
  link_type = "internal" /\ url \notin discovered /\ depth <= MAX_CRAWL_DEPTH

EnqueueGuardAnyType(link_type, url, discovered, depth) ==
  url \notin discovered /\ depth < MAX_CRAWL_DEPTH

\* The test that admits a link to the frontier
EnqueueGuard(link_type, url, discovered, depth) ==
  link_type = "internal" /\ url \notin discovered /\ depth < MAX_CRAWL_DEPTH

PopRight(queue) ==
  [task |-> queue[Len(queue)], rest |-> SubSeq(queue, 1, Len(queue) - 1)]

\* self.url_queue.popleft()
PopLeft(queue) == [task |-> Head(queue), rest |-> Tail(queue)]

\* self.url_queue.append((main_url, 0))
AppendMain(t) ==
  /\ pc[t] = "append_main"
  /\ url_queue' = Append(url_queue, [url |-> main_url[t], depth |-> 0, by |-> t])
  /\ enq_log' = Append(enq_log, [url |-> main_url[t], depth |-> 0, by |-> t, src |-> ""])
  /\ pc' = [pc EXCEPT ![t] = "add_main"]
  /\ UNCHANGED <<discovered_urls, main_url, cur, link, nlinks, sitemap,
                 deq_log, fetch_log, fetch_vars, rest_vars>>

\* self.discovered_urls.add(main_url)
AddMain(t) ==
  /\ pc[t] = "add_main"
  /\ discovered_urls' = discovered_urls \cup {main_url[t]}
  /\ pc' = [pc EXCEPT ![t] = "loop"]
  /\ UNCHANGED <<url_queue, main_url, cur, link, nlinks, sitemap,
                 enq_log, deq_log, fetch_log, fetch_vars, rest_vars>>

\* while self.url_queue and len(self.discovered_urls) < MAX_PAGES_PER_SITE
LoopTest(t) ==
  /\ pc[t] = "loop"
  /\ pc' = [pc EXCEPT ![t] = IF LoopGuard(url_queue, discovered_urls)
                             THEN "pop" ELSE "finalize"]
  /\ UNCHANGED <<discovered_urls, url_queue, main_url, cur, link, nlinks,
                 sitemap, enq_log, deq_log, fetch_log, fetch_vars, rest_vars>>

\* current_url, depth = self.url_queue.popleft(), and the depth test after
\* it; popleft on an empty deque raises IndexError, which ends the crawl.
Pop(t) ==
  /\ pc[t] = "pop"
  /\ IF url_queue = <<>>
     THEN /\ pc' = [pc EXCEPT ![t] = "failed"]
          /\ UNCHANGED <<url_queue, cur, deq_log>>
     ELSE LET p == PopLeft(url_queue)
          IN  /\ url_queue' = p.rest
              /\ cur' = [cur EXCEPT ![t] = p.task]
              /\ deq_log' = [deq_log EXCEPT ![t] = Append(@, p.task)]
              /\ pc' = [pc EXCEPT ![t] = IF p.task.depth > MAX_CRAWL_DEPTH
                                         THEN "loop" ELSE "fetch"]
  /\ UNCHANGED <<discovered_urls, main_url, link, nlinks, sitemap,
                 enq_log, fetch_log, fetch_vars, rest_vars>>

\* html, status_code = self.http_client.get_with_retry(current_url), and
\* page_links = self._extract_all_links_from_page(...).  The links of the
\* page are drawn one by one as the for loop takes them (at most MaxLinks).
FetchReturns(t, r) ==
  /\ pc[t] = "fetch"
  /\ fetch_log' = fetch_log \cup {[url |-> cur[t].url, depth |-> cur[t].depth]}
  /\ IF Falsy(r.html)
     THEN /\ pc' = [pc EXCEPT ![t] = "loop"]
          /\ UNCHANGED nlinks
     ELSE /\ nlinks' = [nlinks EXCEPT ![t] = 0]
          /\ pc' = [pc EXCEPT ![t] = "links"]
  /\ UNCHANGED <<discovered_urls, url_queue, main_url, cur, link, sitemap,
                 enq_log, deq_log, fetch_vars>>

\* The same with get_with_retry as one step
Fetch(t) ==
  /\ \E r \in CrawlFetchResults : FetchReturns(t, r)
  /\ UNCHANGED rest_vars

\* One pass of "for link_info in page_links", on a page whose links are
\* among urls: classify and store the link
LinkAmong(t, urls) ==
  /\ pc[t] = "links"
  /\ nlinks[t] < MaxLinks
  /\ \E url \in urls :
       /\ link' = [link EXCEPT ![t] = url]
       /\ nlinks' = [nlinks EXCEPT ![t] = @ + 1]
       /\ sitemap' = [sitemap EXCEPT ![t] = classify_and_store_link(@, url)]
       /\ pc' = [pc EXCEPT ![t] = "enqueue_test"]
  /\ UNCHANGED <<discovered_urls, url_queue, main_url, cur,
                 enq_log, deq_log, fetch_log, fetch_vars, rest_vars>>

\* if link_info.link_type == "internal" and link_info.url not in
\* self.discovered_urls and depth < config.MAX_CRAWL_DEPTH
EnqueueTest(t) ==
  /\ pc[t] = "enqueue_test"
  /\ IF EnqueueGuard(LinkType(link[t], sitemap[t].main_url), link[t],
                     discovered_urls, cur[t].depth)
     THEN /\ pc' = [pc EXCEPT ![t] = "queue_append"]
          /\ UNCHANGED link
     ELSE /\ pc' = [pc EXCEPT ![t] = "links"]
          /\ link' = [link EXCEPT ![t] = ""]
  /\ UNCHANGED <<discovered_urls, url_queue, main_url, cur, nlinks, sitemap,
                 enq_log, deq_log, fetch_log, fetch_vars, rest_vars>>

\* self.url_queue.append((link_info.url, depth + 1))
QueueAppend(t) ==
  /\ pc[t] = "queue_append"
  /\ LET task == [url |-> link[t], depth |-> cur[t].depth + 1, by |-> t]
     IN  /\ url_queue' = Append(url_queue, task)
         /\ enq_log' = Append(enq_log, [url |-> task.url, depth |-> task.depth,
                                         by |-> t, src |-> cur[t].url])
  /\ pc' = [pc EXCEPT ![t] = "discovered_add"]
  /\ UNCHANGED <<discovered_urls, main_url, cur, link, nlinks, sitemap,
                 deq_log, fetch_log, fetch_vars, rest_vars>>

\* self.discovered_urls.add(link_info.url)
DiscoveredAdd(t) ==
  /\ pc[t] = "discovered_add"
  /\ discovered_urls' = discovered_urls \cup {link[t]}
  /\ link' = [link EXCEPT ![t] = ""]
  /\ pc' = [pc EXCEPT ![t] = "links"]
  /\ UNCHANGED <<url_queue, main_url, cur, nlinks, sitemap,
                 enq_log, deq_log, fetch_log, fetch_vars, rest_vars>>

\* The end of the for loop (a page holds any number of links up to
\* MaxLinks) and the sitemap statistics of the page
PageDone(t) ==
  /\ pc[t] = "links"
  /\ sitemap' = [sitemap EXCEPT
       ![t].crawl_depth_reached = Max(@, cur[t].depth)]
  /\ pc' = [pc EXCEPT ![t] = "loop"]
  /\ UNCHANGED <<discovered_urls, url_queue, main_url, cur, link, nlinks,
                 enq_log, deq_log, fetch_log, fetch_vars, rest_vars>>

\* Finalize sitemap
Finalize(t) ==
  /\ pc[t] = "finalize"
  /\ sitemap' = [sitemap EXCEPT
       ![t].total_pages = Cardinality(discovered_urls),
       ![t].website_structure_complexity =
           _assess_website_complexity(Cardinality(discovered_urls))]
  /\ pc' = [pc EXCEPT ![t] = "crawled"]
  /\ UNCHANGED <<discovered_urls, url_queue, main_url, cur, link, nlinks,
                 enq_log, deq_log, fetch_log, fetch_vars, rest_vars>>

Link(t) == LinkAmong(t, URLS)

\* The steps of discover_all_links on the frontier and the sitemap
FrontierStep(t) ==
  \/ AppendMain(t) \/ AddMain(t) \/ LoopTest(t) \/ Pop(t)
  \/ EnqueueTest(t) \/ QueueAppend(t) \/ DiscoveredAdd(t) \/ PageDone(t)
  \/ Finalize(t)

CrawlStep(t) == FrontierStep(t) \/ Fetch(t)

NoAnswer == [kind |-> "", status |-> 0, body |-> [len |-> 0, text |-> ""]]

\* No call of a worker under way
NoWorker ==
  /\ processed_urls = {}
  /\ f_fn = "off" /\ f_url = "" /\ f_pc = "off"
  /\ f_attempt = 0 /\ f_requests = 0 /\ f_last = NoAnswer /\ f_waits = <<>>
  /\ f_result = [html |-> None, status |-> None]
  /\ page_data = None

\* The threads of the run of one site that fetch: 0 is the thread of
\* analyze_website_comprehensive, which runs discover_all_links, and the
\* others are the threads of the pool of _analyze_all_discovered_pages.
Fetchers == 0..MAX_WORKERS

\* The run of a site in phase `phase`, none of its threads at work
RunAt(phase) ==
  /\ r_pc = phase
  /\ g_pc = [k \in Fetchers |-> "idle"]
  /\ g_url = [k \in Fetchers |-> ""]
  /\ g_attempt = [k \in Fetchers |-> 0]
  /\ g_result = [k \in Fetchers |-> [html |-> None, status |-> None]]
  /\ todo = {}
  /\ pages_data = EmptyBag
  /\ built = {}
  /\ exhausted = {}
  /\ late_requests = {}

\* No run of a site under way
NoRun == RunAt("off")

\* The sites of a batch, each the url the driver read for it, and the
\* threads of the pool of each
SITES == {"https://a.com/", "https://www.a.com/shop", "https://b.org/"}
SiteThreads == SITES \X (1..MAX_WORKERS)

\* No batch under way
NoSites ==
  /\ s_pc = [s \in SITES |-> "off"]
  /\ s_todo = [s \in SITES |-> {}]
  /\ w_pc = [w \in SiteThreads |-> "idle"]
  /\ w_url = [w \in SiteThreads |-> ""]
  /\ s_pages = [s \in SITES |-> EmptyBag]
  /\ s_first = [s \in SITES |-> ""]
  /\ analysed = EmptyBag

\* GoogleMapsInfo(); contact_page_maps, which nothing reads in an order,
\* is kept as the set of its urls
NewGoogleMapsInfo ==
  [maps_links |-> <<>>, iframe_embeds |-> <<>>, javascript_maps |-> <<>>,
   structured_data_maps |-> <<>>, contact_page_maps |-> {},
   all_maps_links |-> <<>>, primary_maps_link |-> "",
   maps_integration_status |-> "Not Found", total_maps_found |-> 0]

\* No page is looked into for its links
NoLinks ==
  /\ l_pc = "off" /\ l_page = <<>> /\ l_links = <<>>
  /\ l_sitemap = NewSiteMap("https://a.com/")

\* No map detection under way
NoMaps ==
  /\ m_pc = "off" /\ m_pages = <<>> /\ m_next = 1
  /\ all_maps_found = {} /\ maps_info = NewGoogleMapsInfo

\* _assess_website_complexity is not called on its own
NoTier == c_pc = "off" /\ c_sitemap = NewSiteMap("https://a.com/")

\* Nothing returned, written or raised by a run
NoReport == r_return = "none" /\ r_files = {} /\ r_raised = "none"

NoMore == NoTier /\ NoReport

NoPage == NoLinks /\ NoMaps /\ NoMore

\* The parts of the program that take no part in a behaviour
Quiet == NoSites /\ NoPage

\* The state after construction, with the crawls of `roots` submitted.
InitFrontier(roots) ==
  /\ discovered_urls = {}
  /\ url_queue = <<>>
  /\ pc = [t \in Crawls |-> IF t <= Len(roots) THEN "append_main" ELSE "off"]
  /\ main_url = [t \in Crawls |-> IF t <= Len(roots) THEN roots[t] ELSE ""]
  /\ cur = [t \in Crawls |-> NoTask]
  /\ link = [t \in Crawls |-> ""]
  /\ nlinks = [t \in Crawls |-> 0]
  /\ sitemap = [t \in Crawls |-> NewSiteMap(IF t <= Len(roots) THEN roots[t] ELSE "https://a.com/")]
  /\ enq_log = <<>>
  /\ deq_log = [t \in Crawls |-> <<>>]
  /\ fetch_log = {}
  /\ NoWorker

InitCrawls(roots) == InitFrontier(roots) /\ NoRun /\ Quiet

\* One crawl on a fresh analyzer.
ROOTS == {"https://a.com/", "https://b.org/"}

Init == \E root \in ROOTS : InitCrawls(<<root>>)

Next == \E t \in Crawls : CrawlStep(t) \/ Link(t)

Spec == Init /\ [][Next]_vars

\* One crawl of the site https://a.com/, whose pages link to one another.
\* The crawl runs on its thread until it returns: no step of it waits for
\* another thread, and the Fetch Port always returns.
LIVE_LINKS == {"https://a.com/about", "https://www.a.com/shop",
               "https://a.com/blog", "https://a.com/team", "https://a.com/faq"}

InitLive == InitCrawls(<<"https://a.com/">>)

NextLive == \E t \in Crawls : CrawlStep(t) \/ LinkAmong(t, LIVE_LINKS)

SpecLive == InitLive /\ [][NextLive]_vars /\ WF_vars(NextLive)


\* The batch driver (analyze_websites_comprehensive_enhanced): one analyzer,
\* hence one discoverer, and one crawl per URL of the list, each submitted
\* to the thread pool.
BATCHES == {<<"https://a.com/", "https://www.a.com/shop">>}

\* The links the pages of a batch run hold
BATCH_LINKS == {"https://a.com/about", "https://www.a.com/shop"}

InitBatch == \E roots \in BATCHES : InitCrawls(roots)

LinkBatch(t) == LinkAmong(t, BATCH_LINKS)

NextBatch == \E t \in Crawls : CrawlStep(t) \/ LinkBatch(t)

SpecBatch == InitBatch /\ [][NextBatch]_vars

\* ------------------------------------------------------------------------
\* One worker: _analyze_single_page_enhanced(url), with the retry loop of
\* get_with_retry one request at a time, or a call of
\* fetch_with_error_handling(url).
\* ------------------------------------------------------------------------
\* The URLs the worker is called on
WORKER_URLS == {"https://a.com/", "https://a.com/about"}

\* A call begins
Call(fn, url) ==
  /\ f_fn' = fn
  /\ f_url' = url
  /\ f_pc' = IF fn = "analyze" THEN "take" ELSE "loop"
  /\ f_attempt' = 0
  /\ f_requests' = 0
  /\ f_last' = NoAnswer
  /\ f_waits' = <<>>
  /\ f_result' = [html |-> None, status |-> None]
  /\ page_data' = None

\* with THREAD_LOCK: if url in processed_urls: return None;
\* processed_urls.add(url)
AnalyzeTake ==
  /\ f_fn = "analyze" /\ f_pc = "take"
  /\ IF f_url \in processed_urls
     THEN /\ f_pc' = "done"
          /\ UNCHANGED processed_urls
     ELSE /\ processed_urls' = processed_urls \cup {f_url}
          /\ f_pc' = "loop"
  /\ UNCHANGED <<f_fn, f_url, f_attempt, f_requests, f_last, f_waits,
                 f_result, page_data, crawl_vars, rest_vars>>

\* One pass of the retry loop: the request, the Fetch Port's answer r, and
\* what the loop body `pass` makes of it.
RetryPass(r, p) ==
  /\ f_requests' = f_requests + 1
  /\ f_last' = r
  /\ IF p.waits = {}
     THEN UNCHANGED f_waits
     ELSE \E w \in p.waits :
            f_waits' = Append(f_waits, [attempt |-> f_attempt, wait |-> w])
  /\ IF p.ret
     THEN /\ f_result' = [html |-> p.html, status |-> p.status]
          /\ f_pc' = "returned"
          /\ UNCHANGED f_attempt
     ELSE /\ f_attempt' = f_attempt + 1
          /\ UNCHANGED <<f_result, f_pc>>
  /\ UNCHANGED <<processed_urls, f_fn, f_url, page_data, crawl_vars, rest_vars>>

\* The loop is over: return None, None
RetryExhausted ==
  /\ f_result' = [html |-> None, status |-> None]
  /\ f_pc' = "returned"
  /\ UNCHANGED <<processed_urls, f_fn, f_url, f_attempt, f_requests, f_last,
                 f_waits, page_data, crawl_vars, rest_vars>>

GetWithRetryPass ==
  /\ f_fn = "analyze" /\ f_pc = "loop"
  /\ ~LoopExhausted(f_attempt, MAX_RETRIES)
  /\ \E r \in RESPONSES : RetryPass(r, get_with_retry_pass(r, f_attempt, MAX_RETRIES))

GetWithRetryExhausted ==
  /\ f_fn = "analyze" /\ f_pc = "loop"
  /\ LoopExhausted(f_attempt, MAX_RETRIES)
  /\ RetryExhausted

FetchWithErrorHandlingPass ==
  /\ f_fn = "fetch" /\ f_pc = "loop"
  /\ ~LoopExhausted(f_attempt, MAX_RETRIES)
  /\ \E r \in RESPONSES :
       RetryPass(r, fetch_with_error_handling_pass(r, f_attempt, MAX_RETRIES))

FetchWithErrorHandlingExhausted ==
  /\ f_fn = "fetch" /\ f_pc = "loop"
  /\ LoopExhausted(f_attempt, MAX_RETRIES)
  /\ RetryExhausted

\* if not html or len(html) < config.MIN_HTML_LENGTH
NeedsSelenium(html) ==
  Falsy(html) \/ \E b \in html : b.len < MIN_HTML_LENGTH

\* After get_with_retry: the choice of the Selenium fallback
AfterHttp ==
  /\ f_fn = "analyze" /\ f_pc = "returned"
  /\ f_pc' = IF NeedsSelenium(f_result.html) THEN "selenium" ELSE "parse"
  /\ UNCHANGED <<processed_urls, f_fn, f_url, f_attempt, f_requests, f_last,
                 f_waits, f_result, page_data, crawl_vars, rest_vars>>

\* The fallback: driver.get(url) raises, or html = driver.page_source and
\* status_code = 200; then "if not html: return None".
Selenium ==
  /\ f_fn = "analyze" /\ f_pc = "selenium"
  /\ \E raised \in BOOLEAN, source \in BODIES :
       IF raised \/ Falsy(Some(source))
       THEN /\ f_pc' = "done"
            /\ UNCHANGED f_result
       ELSE /\ f_result' = [html |-> Some(source), status |-> Some(200)]
            /\ f_pc' = "parse"
  /\ UNCHANGED <<processed_urls, f_fn, f_url, f_attempt, f_requests, f_last,
                 f_waits, page_data, crawl_vars, rest_vars>>

\* Parse the page and fill the PageMetadata; an exception while parsing
\* makes the function return None.
Parse ==
  /\ f_fn = "analyze" /\ f_pc = "parse"
  /\ \E raised \in BOOLEAN :
       page_data' = IF raised THEN None
                    ELSE Some([url |-> f_url, html |-> f_result.html,
                               status_code |-> f_result.status])
  /\ f_pc' = "done"
  /\ UNCHANGED <<processed_urls, f_fn, f_url, f_attempt, f_requests, f_last,
                 f_waits, f_result, crawl_vars, rest_vars>>

\* The worker is given its next call.
NextCall ==
  /\ f_pc \in {"off", "done"} \/ (f_fn = "fetch" /\ f_pc = "returned")
  /\ \E fn \in {"analyze", "fetch"}, url \in WORKER_URLS : Call(fn, url)
  /\ UNCHANGED <<processed_urls, crawl_vars, rest_vars>>

InitFetch == InitCrawls(<<>>)

NextFetch ==
  \/ NextCall \/ AnalyzeTake \/ GetWithRetryPass \/ GetWithRetryExhausted
  \/ FetchWithErrorHandlingPass \/ FetchWithErrorHandlingExhausted
  \/ AfterHttp \/ Selenium \/ Parse

SpecFetch == InitFetch /\ [][NextFetch]_vars

\* ------------------------------------------------------------------------
\* The run of one site, analyze_website_comprehensive(url): the crawl of
\* discover_all_links on the calling thread, with get_with_retry one request
\* and one sleep at a time, then the pool of _analyze_all_discovered_pages
\* with one _analyze_single_page_enhanced per url.
\* ------------------------------------------------------------------------
RUN_ROOT == "https://a.com/"

\* The links the pages of the site hold
RUN_LINKS == {"https://a.com/about", "https://www.a.com/shop"}

\* The answers the site gives: a good page or a timeout
RUN_ANSWERS ==
  {[kind |-> "response", status |-> 200,
    body |-> [len |-> MIN_HTML_LENGTH + 1, text |-> ""]],
   [kind |-> "Timeout", status |-> 0, body |-> [len |-> 0, text |-> ""]]}

\* driver.page_source of the Selenium fallback
RUN_SOURCES == {[len |-> 0, text |-> ""], [len |-> MIN_HTML_LENGTH + 1, text |-> ""]}

\* The variables of one call of a worker, which the run leaves alone
call_vars == <<f_fn, f_url, f_pc, f_attempt, f_requests, f_last, f_waits,
               f_result, page_data>>

\* The thread of discover_all_links and the threads of the pool
CrawlThread == 0
PoolThreads == 1..MAX_WORKERS

\* The urls all attempts of a fetch have failed for so far
ExhaustedUrls == {e.url : e \in exhausted}

\* Thread k has no call under way: its locals are gone
GRest(k) ==
  /\ g_pc' = [g_pc EXCEPT ![k] = "idle"]
  /\ g_url' = [g_url EXCEPT ![k] = ""]
  /\ g_attempt' = [g_attempt EXCEPT ![k] = 0]
  /\ g_result' = [g_result EXCEPT ![k] = [html |-> None, status |-> None]]

\* Thread k calls get_with_retry(url)
GCall(k, url) ==
  /\ g_pc' = [g_pc EXCEPT ![k] = "request"]
  /\ g_url' = [g_url EXCEPT ![k] = url]
  /\ g_attempt' = [g_attempt EXCEPT ![k] = 0]
  /\ g_result' = [g_result EXCEPT ![k] = [html |-> None, status |-> None]]

\* Where thread k is when get_with_retry has returned html: back in
\* discover_all_links, or in _analyze_single_page_enhanced at the choice of
\* the Selenium fallback
AfterReturn(k, html) ==
  IF k = CrawlThread THEN "returned"
  ELSE IF NeedsSelenium(html) THEN "selenium" ELSE "parse"

\* One request of get_with_retry on thread k and what the loop body makes
\* of the answer: return, sleep, or go to the next attempt.
GRequest(k) ==
  /\ g_pc[k] = "request"
  /\ ~LoopExhausted(g_attempt[k], MAX_RETRIES)
  /\ late_requests' = IF g_url[k] \in ExhaustedUrls
                      THEN late_requests \cup {g_url[k]} ELSE late_requests
  /\ \E r \in RUN_ANSWERS :
       LET p == get_with_retry_pass(r, g_attempt[k], MAX_RETRIES)
       IN  IF p.ret
           THEN /\ g_result' = [g_result EXCEPT ![k] = [html |-> p.html, status |-> p.status]]
                /\ g_pc' = [g_pc EXCEPT ![k] = AfterReturn(k, p.html)]
                /\ g_attempt' = [g_attempt EXCEPT ![k] = 0]
           ELSE IF p.waits # {}
           THEN /\ g_pc' = [g_pc EXCEPT ![k] = "sleep"]
                /\ UNCHANGED <<g_attempt, g_result>>
           ELSE /\ g_attempt' = [g_attempt EXCEPT ![k] = @ + 1]
                /\ UNCHANGED <<g_pc, g_result>>
  /\ UNCHANGED <<r_pc, g_url, todo, pages_data, built, exhausted,
                 crawl_vars, fetch_vars, beyond_run>>

\* time.sleep(...) of get_with_retry is over on thread k
GWake(k) ==
  /\ g_pc[k] = "sleep"
  /\ g_pc' = [g_pc EXCEPT ![k] = "request"]
  /\ g_attempt' = [g_attempt EXCEPT ![k] = @ + 1]
  /\ UNCHANGED <<r_pc, g_url, g_result, todo, pages_data, built, exhausted,
                 late_requests, crawl_vars, fetch_vars, beyond_run>>

\* The loop of get_with_retry is over on thread k: return None, None
GExhausted(k) ==
  /\ g_pc[k] = "request"
  /\ LoopExhausted(g_attempt[k], MAX_RETRIES)
  /\ g_result' = [g_result EXCEPT ![k] = [html |-> None, status |-> None]]
  /\ g_pc' = [g_pc EXCEPT ![k] = AfterReturn(k, None)]
  /\ exhausted' = exhausted \cup {[url |-> g_url[k], phase |-> r_pc]}
  /\ g_attempt' = [g_attempt EXCEPT ![k] = 0]
  /\ UNCHANGED <<r_pc, g_url, todo, pages_data, built,
                 late_requests, crawl_vars, fetch_vars, beyond_run>>

\* A step of get_with_retry on thread k
GStep(k) == GRequest(k) \/ GWake(k) \/ GExhausted(k)

\* discover_all_links calls get_with_retry(current_url)
RunCrawlFetch ==
  /\ r_pc = "crawl" /\ pc[1] = "fetch" /\ g_pc[CrawlThread] = "idle"
  /\ GCall(CrawlThread, cur[1].url)
  /\ UNCHANGED <<r_pc, todo, pages_data, built, exhausted, late_requests,
                 crawl_vars, fetch_vars, beyond_run>>

\* get_with_retry returns to discover_all_links
RunCrawlFetched ==
  /\ r_pc = "crawl" /\ g_pc[CrawlThread] = "returned"
  /\ FetchReturns(1, g_result[CrawlThread])
  /\ GRest(CrawlThread)
  /\ UNCHANGED <<r_pc, todo, pages_data, built, exhausted, late_requests,
                 beyond_run>>

\* The other steps of discover_all_links
RunFrontier == r_pc = "crawl" /\ (FrontierStep(1) \/ LinkAmong(1, RUN_LINKS))

\* all_urls of _analyze_all_discovered_pages
AllUrls(sm) == {sm.main_url} \cup sm.internal_links

\* list(all_urls)[:MAX_PAGES_PER_SITE]: the lists of urls the slice can be,
\* each as the set of its members
UrlsToAnalyze(all_urls) ==
  IF Cardinality(all_urls) <= MAX_PAGES_PER_SITE THEN {all_urls}
  ELSE {u \in SUBSET all_urls : Cardinality(u) = MAX_PAGES_PER_SITE}

\* discover_all_links has returned the sitemap: the futures of
\* _analyze_all_discovered_pages are submitted
RunCrawled ==
  /\ r_pc = "crawl" /\ pc[1] = "crawled"
  /\ r_pc' = "analysis"
  /\ \E urls \in UrlsToAnalyze(AllUrls(sitemap[1])) : todo' = urls
  /\ UNCHANGED <<g_pc, g_url, g_attempt, g_result, pages_data, built,
                 exhausted, late_requests, crawl_vars, fetch_vars, beyond_run>>

AlreadyProcessedNever(url, processed) == FALSE

\* if url in processed_urls
AlreadyProcessed(url, processed) == url \in processed

\* A thread of the pool starts a future, _analyze_single_page_enhanced(url):
\* with THREAD_LOCK: if url in processed_urls: return None;
\* processed_urls.add(url); then the call of get_with_retry(url)
WStart(k) ==
  /\ r_pc = "analysis" /\ g_pc[k] = "idle"
  /\ \E url \in todo :
       /\ todo' = todo \ {url}
       /\ IF AlreadyProcessed(url, processed_urls)
          THEN /\ g_pc' = [g_pc EXCEPT ![k] = "none"]
               /\ g_url' = [g_url EXCEPT ![k] = url]
               /\ UNCHANGED <<processed_urls, g_attempt, g_result>>
          ELSE /\ processed_urls' = processed_urls \cup {url}
               /\ GCall(k, url)
  /\ UNCHANGED <<r_pc, pages_data, built, exhausted, late_requests,
                 crawl_vars, call_vars, beyond_run>>

\* The fallback: driver.get(url) raises, or html = driver.page_source and
\* status_code = 200; then "if not html: return None".
WSelenium(k) ==
  /\ g_pc[k] = "selenium"
  /\ late_requests' = IF g_url[k] \in ExhaustedUrls
                      THEN late_requests \cup {g_url[k]} ELSE late_requests
  /\ \E raised \in BOOLEAN, source \in RUN_SOURCES :
       IF raised \/ Falsy(Some(source))
       THEN /\ g_pc' = [g_pc EXCEPT ![k] = "none"]
            /\ g_result' = [g_result EXCEPT ![k] = [html |-> None, status |-> None]]
       ELSE /\ g_result' = [g_result EXCEPT ![k] = [html |-> Some(source), status |-> Some(200)]]
            /\ g_pc' = [g_pc EXCEPT ![k] = "parse"]
  /\ UNCHANGED <<r_pc, g_url, g_attempt, todo, pages_data, built, exhausted,
                 crawl_vars, fetch_vars, beyond_run>>

\* Parse the page and fill the PageMetadata; an exception while parsing
\* makes the function return None.
WParse(k) ==
  /\ g_pc[k] = "parse"
  /\ \E raised \in BOOLEAN :
       IF raised
       THEN /\ g_pc' = [g_pc EXCEPT ![k] = "none"]
            /\ UNCHANGED built
       ELSE /\ g_pc' = [g_pc EXCEPT ![k] = "page"]
            /\ built' = built \cup {g_url[k]}
  /\ g_result' = [g_result EXCEPT ![k] = [html |-> None, status |-> None]]
  /\ UNCHANGED <<r_pc, g_url, g_attempt, todo, pages_data,
                 exhausted, late_requests, crawl_vars, fetch_vars, beyond_run>>

CollectAbortOnNone(pages, returned_page, url) ==
  IF returned_page THEN pages (+) SetToBag({[url |-> url]}) ELSE EmptyBag

\* page_data = future.result(); if page_data: pages_data.append(page_data).
\* The list is kept as the bag of its members.
Collect(pages, returned_page, url) ==
  IF returned_page THEN pages (+) SetToBag({[url |-> url]}) ELSE pages

\* for future in as_completed(futures): one future is done
WCollect(k) ==
  /\ g_pc[k] \in {"page", "none"}
  /\ pages_data' = Collect(pages_data, g_pc[k] = "page", g_url[k])
  /\ GRest(k)
  /\ UNCHANGED <<r_pc, todo, built, exhausted, late_requests,
                 crawl_vars, fetch_vars, beyond_run>>

\* Every future is done: return pages_data, and "if not pages_data:
\* return {}" in analyze_website_comprehensive
RunAnalyzed ==
  /\ r_pc = "analysis" /\ todo = {}
  /\ \A k \in PoolThreads : g_pc[k] = "idle"
  /\ r_pc' = IF pages_data = EmptyBag THEN "empty" ELSE "analyzed"
  /\ r_return' = IF pages_data = EmptyBag THEN "empty" ELSE r_return
  /\ UNCHANGED <<g_pc, g_url, g_attempt, g_result, todo, pages_data, built,
                 exhausted, late_requests, r_files, r_raised,
                 crawl_vars, fetch_vars, past_run>>

\* The fields of the dataclass ContactInfo
CONTACT_INFO_FIELDS ==
  {"brand_name", "email", "mobile_phone", "corporate_phone", "support_phone",
   "company_phone", "address", "company_city", "company_state", "google_map",
   "all_google_maps_links", "google_maps_integration", "social_media"}

\* The attributes of contact_info the f-string of the report reads
REPORT_CONTACT_ATTRS ==
  {"company_name", "brand_name", "email", "mobile_phone", "corporate_phone",
   "support_phone", "company_phone", "address", "company_city",
   "company_state", "google_map", "all_google_maps_links",
   "google_maps_integration", "social_media"}

\* _generate_comprehensive_summary_report(summary_data) raises
\* AttributeError: it reads an attribute its contact_info, an instance with
\* the attributes `attrs`, does not have
generate_comprehensive_summary_report_raises(attrs) ==
  \E a \in REPORT_CONTACT_ATTRS : a \notin attrs

\* return {} of the handler "except Exception" after `what` raised
RunFailed(what) ==
  /\ r_pc' = "returned"
  /\ r_return' = "empty"
  /\ r_raised' = what

\* Phases 3 to 5 and the compilation of summary_data: the detection of the
\* maps, _save_comprehensive_raw_data, the five extractors
RunCompile ==
  /\ r_pc = "analyzed"
  /\ \E maps_raised, save_failed, extract_raised \in BOOLEAN :
       IF maps_raised
       THEN RunFailed("collaborator") /\ UNCHANGED r_files
       ELSE IF save_failed
       THEN RunFailed("save") /\ UNCHANGED r_files
       ELSE /\ r_files' = r_files \cup {"raw_data"}
            /\ IF extract_raised
               THEN RunFailed("collaborator")
               ELSE r_pc' = "compiled" /\ UNCHANGED <<r_return, r_raised>>
  /\ UNCHANGED <<g_pc, g_url, g_attempt, g_result, todo, pages_data, built,
                 exhausted, late_requests, crawl_vars, fetch_vars, past_run>>

\* The report and its files: _generate_comprehensive_summary_report on
\* the ContactInfo of extract_contact_info, _save_enhanced_summary_report,
\* _save_enhanced_master_json, return summary_data
RunReport ==
  /\ r_pc = "compiled"
  /\ \E report_failed, json_failed \in BOOLEAN :
       IF generate_comprehensive_summary_report_raises(CONTACT_INFO_FIELDS)
       THEN RunFailed("report") /\ UNCHANGED r_files
       ELSE IF report_failed
       THEN RunFailed("save") /\ UNCHANGED r_files
       ELSE IF json_failed
       THEN RunFailed("save") /\ r_files' = r_files \cup {"summary_report"}
       ELSE /\ r_files' = r_files \cup {"summary_report", "master_json"}
            /\ r_pc' = "returned"
            /\ r_return' = "summary_data"
            /\ UNCHANGED r_raised
  /\ UNCHANGED <<g_pc, g_url, g_attempt, g_result, todo, pages_data, built,
                 exhausted, late_requests, crawl_vars, fetch_vars, past_run>>

\* A step of a thread of the pool
WStep(k) ==
  \/ WStart(k) \/ GStep(k) \/ WSelenium(k) \/ WParse(k) \/ WCollect(k)

InitRun == InitFrontier(<<RUN_ROOT>>) /\ RunAt("crawl") /\ Quiet

NextRun ==
  \/ RunFrontier \/ RunCrawlFetch \/ GStep(CrawlThread) \/ RunCrawlFetched
  \/ RunCrawled
  \/ \E k \in PoolThreads : WStep(k)
  \/ RunAnalyzed
  \/ RunCompile \/ RunReport

SpecRun == InitRun /\ [][NextRun]_vars

\* ------------------------------------------------------------------------
\* The batch driver and its pools: analyze_websites_comprehensive_enhanced
\* submits one analyze_website_comprehensive per site to a pool of
\* MAX_WORKERS threads, and each of these, once its crawl is over, submits
\* one _analyze_single_page_enhanced per url to a pool of its own.
\* ------------------------------------------------------------------------
\* The sites whose run is on a thread of the driver's pool
Running == {s \in SITES : s_pc[s] \in {"crawl", "analysis"}}

\* The urls the crawl of a site can find: those of its domain
SiteUrls(site) == {u \in SITES : LinkType(u, site) = "internal"}

\* ThreadPoolExecutor(max_workers=n): a submitted call starts when fewer
\* than n of the pool's calls are running
PoolHasThread(running, n) == running < n

\* A thread of the driver's pool starts analyze_website_comprehensive(site)
SiteStart(site) ==
  /\ s_pc[site] = "queued"
  /\ PoolHasThread(Cardinality(Running), MAX_WORKERS)
  /\ s_pc' = [s_pc EXCEPT ![site] = "crawl"]
  /\ UNCHANGED <<s_todo, w_pc, w_url, s_pages, s_first, analysed,
                 crawl_vars, fetch_vars, run_vars, page_vars>>

\* discover_all_links has returned the sitemap of the site: the futures of
\* _analyze_all_discovered_pages are submitted
SiteCrawled(site) ==
  /\ s_pc[site] = "crawl"
  /\ s_pc' = [s_pc EXCEPT ![site] = "analysis"]
  /\ \E internal_links \in SUBSET SiteUrls(site) :
       \E urls \in UrlsToAnalyze({site} \cup internal_links) :
          s_todo' = [s_todo EXCEPT ![site] = urls]
  /\ UNCHANGED <<w_pc, w_url, s_pages, s_first, analysed,
                 crawl_vars, fetch_vars, run_vars, page_vars>>

\* A thread of the pool of the site starts a future,
\* _analyze_single_page_enhanced(url), and passes the lock
PageStart(site, k) ==
  /\ s_pc[site] = "analysis" /\ w_pc[<<site, k>>] = "idle"
  /\ PoolHasThread(Cardinality({j \in 1..MAX_WORKERS : w_pc[<<site, j>>] # "idle"}),
                   MAX_WORKERS)
  /\ \E url \in s_todo[site] :
       /\ s_todo' = [s_todo EXCEPT ![site] = @ \ {url}]
       /\ w_url' = [w_url EXCEPT ![<<site, k>>] = url]
       /\ IF AlreadyProcessed(url, processed_urls)
          THEN /\ w_pc' = [w_pc EXCEPT ![<<site, k>>] = "none"]
               /\ UNCHANGED <<processed_urls, analysed>>
          ELSE /\ processed_urls' = processed_urls \cup {url}
               /\ w_pc' = [w_pc EXCEPT ![<<site, k>>] = "work"]
               /\ analysed' = analysed (+) SetToBag({url})
  /\ UNCHANGED <<s_pc, s_pages, s_first, crawl_vars, call_vars, run_vars, page_vars>>

\* What _analyze_single_page_enhanced returns after the lock, on the value
\* res of get_with_retry: a PageMetadata (TRUE) or None
PageOutcome(res, selenium_raised, source, parse_raised) ==
  LET html == IF NeedsSelenium(res.html)
              THEN (IF selenium_raised THEN None ELSE Some(source))
              ELSE res.html
  IN  ~Falsy(html) /\ ~parse_raised

\* The fetch and the parse of the page
PageWork(site, k) ==
  /\ w_pc[<<site, k>>] = "work"
  /\ \E res \in CrawlFetchResults, selenium_raised, parse_raised \in BOOLEAN,
        source \in RUN_SOURCES :
       w_pc' = [w_pc EXCEPT ![<<site, k>>] =
                  IF PageOutcome(res, selenium_raised, source, parse_raised)
                  THEN "page" ELSE "none"]
  /\ UNCHANGED <<s_pc, s_todo, w_url, s_pages, s_first, analysed,
                 crawl_vars, fetch_vars, run_vars, page_vars>>

\* pages_data[0] once a future is done: the first page appended stays first
FirstPage(first, is_page, url) == IF is_page /\ first = "" THEN url ELSE first

\* for future in as_completed(futures): one future is done
PageCollect(site, k) ==
  /\ w_pc[<<site, k>>] \in {"page", "none"}
  /\ s_pages' = [s_pages EXCEPT ![site] =
                   Collect(@, w_pc[<<site, k>>] = "page", w_url[<<site, k>>])]
  /\ s_first' = [s_first EXCEPT ![site] =
                   FirstPage(@, w_pc[<<site, k>>] = "page", w_url[<<site, k>>])]
  /\ w_pc' = [w_pc EXCEPT ![<<site, k>>] = "idle"]
  /\ w_url' = [w_url EXCEPT ![<<site, k>>] = ""]
  /\ UNCHANGED <<s_pc, s_todo, analysed, crawl_vars, fetch_vars, run_vars, page_vars>>

\* Every future of the site is done: analyze_website_comprehensive returns
SiteDone(site) ==
  /\ s_pc[site] = "analysis" /\ s_todo[site] = {}
  /\ \A k \in 1..MAX_WORKERS : w_pc[<<site, k>>] = "idle"
  /\ s_pc' = [s_pc EXCEPT ![site] = "done"]
  /\ UNCHANGED <<s_todo, w_pc, w_url, s_pages, s_first, analysed,
                 crawl_vars, fetch_vars, run_vars, page_vars>>

\* The driver has submitted the run of every site
InitSites ==
  /\ InitFrontier(<<>>) /\ NoRun
  /\ s_pc = [s \in SITES |-> "queued"]
  /\ s_todo = [s \in SITES |-> {}]
  /\ w_pc = [w \in SiteThreads |-> "idle"]
  /\ w_url = [w \in SiteThreads |-> ""]
  /\ s_pages = [s \in SITES |-> EmptyBag]
  /\ s_first = [s \in SITES |-> ""]
  /\ analysed = EmptyBag
  /\ NoPage

NextSites ==
  \/ \E site \in SITES : SiteStart(site) \/ SiteCrawled(site) \/ SiteDone(site)
  \/ \E site \in SITES, k \in 1..MAX_WORKERS :
       PageStart(site, k) \/ PageWork(site, k) \/ PageCollect(site, k)

SpecSites == InitSites /\ [][NextSites]_vars

\* ------------------------------------------------------------------------
\* The links of one page: ComprehensiveLinkDiscoverer takes the anchors of
\* a page it fetched, makes a LinkInfo of each and stores it in the SiteMap.

\* The page is the main page of the site
PAGE_URL == "https://a.com/"

\* The anchors a page may hold: the value of href and the text of the tag
HREFS == {"", "/about", "/about#team", "#top", "/brochure.pdf",
          "mailto:info@a.com", "tel:+15550100", "javascript:void(0)",
          "https://b.org/", "https://b.org/contact",
          "https://www.facebook.com/acme", "https://dropbox.com/acme",
          "https://maps.google.com/?q=acme",
          "https://www.google.com/maps/place/acme",
          "https://goo.gl/maps/abc", "https://maps.app.goo.gl/xyz"}
ANCHORS == [href : HREFS, text : {""}] \cup
           {[href |-> "https://b.org/", text |-> "Contact us"]}

\* The pages of at most n anchors
PagesOfAnchors(n) == UNION {[1..k -> ANCHORS] : k \in 0..n}

\* href.startswith(prefix)
StartsWith(href, prefix) ==
  <<href, prefix>> \in {<<"#top", "#">>, <<"javascript:void(0)", "javascript:">>,
                        <<"mailto:info@a.com", "mailto:">>,
                        <<"tel:+15550100", "tel:">>}

\* urljoin(base_url, href), base_url being PAGE_URL
urljoin(base_url, href) ==
  CASE href = "" -> base_url
    [] href = "/about" -> "https://a.com/about"
    [] href = "/about#team" -> "https://a.com/about#team"
    [] href = "#top" -> "https://a.com/#top"
    [] href = "/brochure.pdf" -> "https://a.com/brochure.pdf"
    [] OTHER -> href

\* any(full_url.lower().endswith(ext) for ext in self.excluded_extensions)
HasExcludedExtension(full_url) == full_url = "https://a.com/brochure.pdf"

\* full_url.split('#')[0]
SplitFragment(full_url) ==
  CASE full_url = "https://a.com/about#team" -> "https://a.com/about"
    [] full_url = "https://a.com/#top" -> "https://a.com/"
    [] OTHER -> full_url

\* The LinkInfo list of the anchors of a page
extract_all_links_from_page(anchors, base_url, depth) ==
  LET Kept(a) ==
        /\ ~(a.href = "" \/ StartsWith(a.href, "#")
                         \/ StartsWith(a.href, "javascript:"))
        /\ ~HasExcludedExtension(urljoin(base_url, a.href))
      kept == SelectSeq(anchors, Kept)
  IN  [i \in 1..Len(kept) |->
         [url |-> urljoin(base_url, kept[i].href),
          anchor_text |-> kept[i].text,
          source_page |-> base_url, depth |-> depth + 1]]

\* for link_info in page_links: self._classify_and_store_link(link_info, sitemap)
RECURSIVE StoreLinks(_, _)
StoreLinks(sm, links) ==
  IF links = <<>> THEN sm
  ELSE StoreLinks(classify_and_store_link(sm, Head(links).url), Tail(links))

\* The list the SiteMap holds the url in, as the link_type of the link
StoredTypes(sm, url) ==
  {t \in {"internal", "social", "maps", "external"} :
     url \in (CASE t = "internal" -> sm.internal_links
                [] t = "social" -> sm.social_links
                [] t = "maps" -> sm.maps_links
                [] OTHER -> sm.external_links)}

\* Every url a list of links of the SiteMap holds
StoredUrls(sm) ==
  sm.internal_links \cup sm.social_links \cup sm.maps_links \cup sm.external_links

\* page_links = self._extract_all_links_from_page(html, current_url, depth)
LinksExtract ==
  /\ l_pc = "page"
  /\ l_links' = extract_all_links_from_page(l_page, PAGE_URL, 0)
  /\ l_pc' = "extracted"
  /\ UNCHANGED <<l_page, l_sitemap, maps_vars, more_vars, crawl_vars, fetch_vars,
                 run_vars, site_vars>>

\* The loop over page_links has stored every link
LinksStore ==
  /\ l_pc = "extracted"
  /\ l_sitemap' = StoreLinks(l_sitemap, l_links)
  /\ l_pc' = "stored"
  /\ UNCHANGED <<l_page, l_links, maps_vars, more_vars, crawl_vars, fetch_vars,
                 run_vars, site_vars>>

\* get_with_retry has returned the html of the main page
InitLinks ==
  /\ InitFrontier(<<>>) /\ NoRun /\ NoSites /\ NoMaps /\ NoMore
  /\ l_pc = "page"
  /\ l_page \in PagesOfAnchors(MaxAnchors)
  /\ l_links = <<>>
  /\ l_sitemap = NewSiteMap(PAGE_URL)

NextLinks == LinksExtract \/ LinksStore

SpecLinks == InitLinks /\ [][NextLinks]_vars

\* The link_type extract_clickable_links gives a link of a page of base_url
ClickableLinkType(full_url, anchor_text, base_url) ==
  LET base_domain == StripWww(Netloc(base_url))
      link_domain == StripWww(Netloc(full_url))
      url_lower == Lower(full_url)
      anchor_lower == Lower(anchor_text)
  IN  IF base_domain = link_domain THEN "internal"
      ELSE IF link_domain \in SOCIAL_DOMAINS THEN "social"
      ELSE IF is_maps_link(full_url) THEN "maps"
      ELSE IF \E kw \in CLICKABLE_CONTACT_KEYWORDS :
                Contains(kw, url_lower) \/ Contains(kw, anchor_lower)
      THEN "contact"
      ELSE "external"

\* ------------------------------------------------------------------------
\* The map detection: EnhancedGoogleMapsDetector.detect_all_google_maps
\* goes over the pages of the site and gathers the map urls of four
\* channels.

M_PLACE == "https://www.google.com/maps/place/acme"
M_PLACE_HQ == "https://www.google.com/maps/place/Acme+HQ"
M_EMBED == "https://maps.google.com/?q=acme"
M_SHORT == "https://goo.gl/maps/abc"
M_DIR == "https://www.google.com/maps/dir/home/acme"
SCRIPT_PLACE == "initMap('https://www.google.com/maps/place/acme')"
GEO_URL == "https://www.google.com/maps?q=40.0,-73.9"
ADDRESS_URL == "https://www.google.com/maps/search/1+Main+St,+Springfield"

\* The objects of the JSON-LD of a page, each with the keys it holds
D_OTHER == [name |-> "Acme"]
D_HASMAP == [name |-> "Acme", hasMap |-> M_PLACE_HQ]
D_GEO == [location |-> [geo |-> [latitude |-> "40.0", longitude |-> "-73.9"]]]
D_GEO_HASMAP == [hasMap |-> M_PLACE_HQ,
                 location |-> [geo |-> [latitude |-> "40.0", longitude |-> "-73.9"]]]
D_GEO_ADDRESS == [location |-> [geo |-> [latitude |-> "40.0", longitude |-> "-73.9"]],
                  address |-> [streetAddress |-> "1 Main St",
                               addressLocality |-> "Springfield"]]
D_ADDRESS == [address |-> [streetAddress |-> "1 Main St",
                           addressLocality |-> "Springfield"]]
CONTACT_URL == "https://a.com/contact"

\* set(seq)
SetOf(seq) == {seq[i] : i \in 1..Len(seq)}

\* A PageMetadata with what its html holds: the href of its anchors, the
\* src of its iframes, the string of its scripts, and its json_ld
MapPage(url, anchors, iframes, scripts, json_ld) ==
  [url |-> url, html |-> TRUE, anchors |-> anchors, iframes |-> iframes,
   scripts |-> scripts, json_ld |-> json_ld, is_contact_page |-> FALSE,
   google_maps_found |-> {}]

\* The pages detect_all_google_maps may be given: pages with anchors and
\* JSON-LD, a page for each other channel, a page with a match of every
\* channel, the contact page, and a page that has no html
MAP_PAGES ==
  {MapPage(PAGE_URL, anchors, <<>>, <<>>, json_ld) :
     anchors \in {<<>>, <<M_PLACE>>, <<"/about", M_SHORT>>, <<M_DIR>>},
     json_ld \in {<<>>, <<D_OTHER, D_HASMAP>>}}
  \cup {MapPage(PAGE_URL, <<>>, <<M_EMBED>>, <<>>, <<>>),
        MapPage(PAGE_URL, <<>>, <<>>, <<SCRIPT_PLACE>>, <<>>),
        MapPage(PAGE_URL, <<M_PLACE>>, <<M_EMBED>>, <<SCRIPT_PLACE>>, <<D_HASMAP>>),
        MapPage(CONTACT_URL, <<M_PLACE_HQ>>, <<>>, <<>>, <<>>)}
  \cup {MapPage(PAGE_URL, <<>>, <<>>, <<>>, json_ld) :
          json_ld \in {<<D_GEO>>, <<D_GEO_HASMAP>>, <<D_GEO_ADDRESS, D_ADDRESS>>}}
  \cup {[MapPage(PAGE_URL, <<>>, <<>>, <<>>, <<>>) EXCEPT !.html = FALSE]}

\* The lists of at most n pages
PagesData(n) == UNION {[1..k -> MAP_PAGES] : k \in 0..n}

\* The urls of seq that hold one of the patterns, in the order of seq
UrlsWithPattern(seq, base_url, patterns) ==
  LET full_url(i) == urljoin(base_url, seq[i])
      Hit(i) == \E pattern \in patterns : Contains(pattern, Lower(full_url(i)))
      hits == SelectSeq([i \in 1..Len(seq) |-> i], Hit)
  IN  [j \in 1..Len(hits) |-> full_url(hits[j])]

detect_direct_links(page) ==
  UrlsWithPattern(page.anchors, page.url,
                  {"maps.google.com", "google.com/maps", "goo.gl/maps",
                   "maps.app.goo.gl"})

detect_iframe_embeds(page) ==
  UrlsWithPattern(page.iframes, page.url, {"maps.google.com", "google.com/maps"})

\* re.findall(pattern, script_content, re.IGNORECASE) for the pattern of
\* index n of self.maps_patterns, each match with its quotes stripped
FindAll(n, script_content) ==
  IF n = 1 /\ script_content = SCRIPT_PLACE THEN <<M_PLACE>> ELSE <<>>

\* seq, then the elements of more that are not in it yet
RECURSIVE AppendNew(_, _)
AppendNew(seq, more) ==
  IF more = <<>> THEN seq
  ELSE AppendNew(IF Head(more) \in SetOf(seq) THEN seq ELSE Append(seq, Head(more)),
                 Tail(more))

RECURSIVE ScanScripts(_, _, _, _)
ScanScripts(js_maps, scripts, i, n) ==
  IF i > Len(scripts) THEN js_maps
  ELSE IF scripts[i] = "" \/ n > 4 THEN ScanScripts(js_maps, scripts, i + 1, 1)
  ELSE ScanScripts(AppendNew(js_maps, FindAll(n, scripts[i])), scripts, i, n + 1)

detect_javascript_maps(page) == ScanScripts(<<>>, page.scripts, 1, 1)

\* f"https://www.google.com/maps?q={lat},{lng}"
GeoQueryUrl(lat, lng) ==
  IF lat = "40.0" /\ lng = "-73.9" THEN GEO_URL ELSE ""

\* The parts of the address joined with ', ', each ' ' made a '+', after
\* https://www.google.com/maps/search/
AddressSearchUrl(address_parts) ==
  IF address_parts = <<"1 Main St", "Springfield">> THEN ADDRESS_URL ELSE ""

\* [str(address[key]) for key in [...] if key in address]
AddressParts(address) ==
  LET keys == <<"streetAddress", "addressLocality", "addressRegion", "postalCode">>
      held == SelectSeq(keys, LAMBDA key : key \in DOMAIN address)
  IN  [i \in 1..Len(held) |-> address[held[i]]]

\* 'location' in data, with a geo that holds latitude and longitude
HasGeo(data) ==
  /\ "location" \in DOMAIN data
  /\ "geo" \in DOMAIN data.location
  /\ {"latitude", "longitude"} \subseteq DOMAIN data.location.geo

\* _extract_maps_from_structured_data(data): a url or None
extract_maps_from_structured_data_NoGeo(data) ==
  IF "hasMap" \in DOMAIN data THEN Some(data.hasMap)
  ELSE IF "address" \in DOMAIN data /\ AddressParts(data.address) # <<>>
  THEN Some(AddressSearchUrl(AddressParts(data.address)))
  ELSE None

extract_maps_from_structured_data(data) ==
  IF "hasMap" \in DOMAIN data THEN Some(data.hasMap)
  ELSE IF HasGeo(data)
  THEN Some(GeoQueryUrl(data.location.geo.latitude, data.location.geo.longitude))
  ELSE IF "address" \in DOMAIN data /\ AddressParts(data.address) # <<>>
  THEN Some(AddressSearchUrl(AddressParts(data.address)))
  ELSE None

RECURSIVE StructuredMaps(_, _)
StructuredMaps(structured_maps, json_ld) ==
  IF json_ld = <<>> THEN structured_maps
  ELSE LET maps_url == extract_maps_from_structured_data(Head(json_ld))
       IN  StructuredMaps(IF maps_url = None \/ maps_url = Some("")
                          THEN structured_maps
                          ELSE structured_maps \o <<CHOOSE u \in maps_url : TRUE>>,
                          Tail(json_ld))

detect_structured_data_maps(page) == StructuredMaps(<<>>, page.json_ld)

\* all_maps_found after the four update calls of one pass of the loop
FoundOnPageDirectOnly(found, page) == found \cup SetOf(detect_direct_links(page))

FoundOnPage(found, page) ==
  found \cup SetOf(detect_direct_links(page)) \cup SetOf(detect_iframe_embeds(page))
        \cup SetOf(detect_javascript_maps(page))
        \cup SetOf(detect_structured_data_maps(page))

PRIORITY_PATTERNS == <<"maps.google.com/place/", "google.com/maps/place/",
                       "maps.google.com/dir/", "google.com/maps/dir/",
                       "maps.google.com", "google.com/maps">>

\* The link matches the priority pattern of index n
MatchesPriority(n, a_link) == Contains(PRIORITY_PATTERNS[n], Lower(a_link))

select_primary_maps_link_First(maps_links) ==
  IF maps_links = <<>> THEN "" ELSE maps_links[1]

select_primary_maps_link(maps_links) ==
  IF maps_links = <<>> THEN ""
  ELSE LET matched == {n \in 1..Len(PRIORITY_PATTERNS) :
                         \E i \in 1..Len(maps_links) : MatchesPriority(n, maps_links[i])}
       IN  IF matched = {} THEN maps_links[1]
           ELSE LET n == CHOOSE n \in matched : \A o \in matched : n <= o
                    i == CHOOSE i \in 1..Len(maps_links) :
                           /\ MatchesPriority(n, maps_links[i])
                           /\ \A j \in 1..(i - 1) : ~MatchesPriority(n, maps_links[j])
                IN  maps_links[i]

\* maps_integration_status after the call
IntegrationStatusAlways(found) == "Integrated"

IntegrationStatus(found) == IF found # {} THEN "Integrated" ELSE "Not Found"

\* list(a_set): the elements of the set in one of the orders the build
\* of the interpreter and the hash seed of the run can give
Lists(a_set) ==
  {l \in [1..Cardinality(a_set) -> a_set] : SetOf(l) = a_set}

\* for page in pages_data: one pass of the loop
MapsPage ==
  /\ m_pc = "pages" /\ m_next <= Len(m_pages)
  /\ LET page == m_pages[m_next]
         found == FoundOnPage(all_maps_found, page)
     IN  IF ~page.html
         THEN UNCHANGED <<m_pages, all_maps_found, maps_info>>
         ELSE /\ all_maps_found' = found
              /\ m_pages' = [m_pages EXCEPT ![m_next].google_maps_found = found]
              /\ maps_info' =
                   [maps_info EXCEPT
                      !.maps_links = @ \o detect_direct_links(page),
                      !.iframe_embeds = @ \o detect_iframe_embeds(page),
                      !.javascript_maps = @ \o detect_javascript_maps(page),
                      !.structured_data_maps = @ \o detect_structured_data_maps(page),
                      !.contact_page_maps =
                         IF page.is_contact_page \/ Contains("contact", Lower(page.url))
                         THEN @ \cup found ELSE @]
  /\ m_next' = m_next + 1
  /\ UNCHANGED <<m_pc, link_vars, more_vars, crawl_vars, fetch_vars, run_vars,
                 site_vars>>

\* After the loop: the aggregate, its size, the primary link, the status
MapsCompile ==
  /\ m_pc = "pages" /\ m_next > Len(m_pages)
  /\ \E all_maps_links \in Lists(all_maps_found) :
       maps_info' =
         [maps_info EXCEPT
            !.all_maps_links = all_maps_links,
            !.total_maps_found = Cardinality(all_maps_found),
            !.primary_maps_link =
               IF all_maps_found # {} THEN select_primary_maps_link(all_maps_links)
               ELSE @,
            !.maps_integration_status = IntegrationStatus(all_maps_found)]
  /\ m_pc' = "done"
  /\ UNCHANGED <<m_pages, m_next, all_maps_found, link_vars, more_vars, crawl_vars,
                 fetch_vars, run_vars, site_vars>>

\* detect_all_google_maps(pages_data, sitemap) is called
InitMaps ==
  /\ InitFrontier(<<>>) /\ NoRun /\ NoSites /\ NoLinks /\ NoMore
  /\ m_pc = "pages"
  /\ m_pages \in PagesData(MaxPages)
  /\ m_next = 1
  /\ all_maps_found = {}
  /\ maps_info = NewGoogleMapsInfo

NextMaps == MapsPage \/ MapsCompile

SpecMaps == InitMaps /\ [][NextMaps]_vars

\* ------------------------------------------------------------------------
\* The complexity tier of a SiteMap, on its own

\* The SiteMaps _assess_website_complexity may be given
TIER_SITEMAPS ==
  {[NewSiteMap(PAGE_URL) EXCEPT !.total_pages = n, !.crawl_depth_reached = d,
                                !.internal_links = l] :
     n \in 0..MaxTotalPages, d \in 0..1, l \in {{}, {"https://a.com/about"}}}

\* sitemap.website_structure_complexity = self._assess_website_complexity(sitemap)
AssessComplexity ==
  /\ c_pc = "call"
  /\ c_sitemap' = [c_sitemap EXCEPT !.website_structure_complexity =
                     _assess_website_complexity(c_sitemap.total_pages)]
  /\ c_pc' = "done"
  /\ UNCHANGED <<link_vars, maps_vars, report_vars, crawl_vars, fetch_vars,
                 run_vars, site_vars>>

InitTier ==
  /\ InitFrontier(<<>>) /\ NoRun /\ NoSites /\ NoLinks /\ NoMaps /\ NoReport
  /\ c_pc = "call"
  /\ c_sitemap \in TIER_SITEMAPS

NextTier == AssessComplexity

SpecTier == InitTier /\ [][NextTier]_vars

\* ------------------------------------------------------------------------
\* Properties
\* ------------------------------------------------------------------------
Range(seq) == {seq[i] : i \in 1..Len(seq)}

\* How many accepted enqueues of url the history holds
Enqueues(url) == Cardinality({i \in 1..Len(enq_log) : enq_log[i].url = url})

NonDecreasing(tasks) ==
  \A i, j \in 1..Len(tasks) : i < j => tasks[i].depth <= tasks[j].depth

\* C1: within one crawl on a fresh discoverer no URL is enqueued twice: the
\* history of accepted enqueues holds every URL at most once, and so does
\* the queue.
C1_NoUrlEnqueuedTwice ==
  /\ \A u \in URLS : Enqueues(u) <= 1
  /\ \A i, j \in 1..Len(url_queue) : url_queue[i].url = url_queue[j].url => i = j

\* The loop is testing a link to a URL that was enqueued from another page.
C1_Witness ==
  \E t \in Crawls : \E i \in 1..Len(enq_log) :
    /\ pc[t] = "enqueue_test"
    /\ enq_log[i].url = link[t]
    /\ enq_log[i].src # cur[t].url /\ enq_log[i].src # ""
    /\ LinkType(link[t], main_url[t]) = "internal"
    /\ cur[t].depth < MAX_CRAWL_DEPTH

\* C2: the page budget caps the frontier: the discovered-URL set never has
\* more than MAX_PAGES_PER_SITE members, nor does total_pages exceed it.
C2_BudgetCapsDiscovered ==
  /\ Cardinality(discovered_urls) <= MAX_PAGES_PER_SITE
  /\ \A t \in Crawls : sitemap[t].total_pages <= MAX_PAGES_PER_SITE

\* C3: no task deeper than MAX_CRAWL_DEPTH is accepted by the frontier, is
\* in the queue, or has its page fetched by the crawl loop.
C3_DepthBound ==
  /\ \A i \in 1..Len(url_queue) : url_queue[i].depth <= MAX_CRAWL_DEPTH
  /\ \A i \in 1..Len(enq_log) : enq_log[i].depth <= MAX_CRAWL_DEPTH
  /\ \A f \in fetch_log : f.depth <= MAX_CRAWL_DEPTH

\* The loop is testing a new internal link found on a fetched page at the
\* maximum depth.
C3_Witness ==
  \E t \in Crawls :
    /\ pc[t] = "enqueue_test"
    /\ cur[t].depth = MAX_CRAWL_DEPTH
    /\ LinkType(link[t], main_url[t]) = "internal"
    /\ link[t] \notin discovered_urls
    /\ [url |-> cur[t].url, depth |-> cur[t].depth] \in fetch_log

\* C4: the frontier is strict FIFO and the traversal breadth-first: within
\* one crawl the tasks are dequeued in the order they were enqueued, the
\* queue holds shallower tasks before deeper ones, and the depths of the
\* dequeued tasks never decrease.
C4_FifoBreadthFirst ==
  /\ NonDecreasing(url_queue)
  /\ \A t \in Crawls :
       /\ NonDecreasing(deq_log[t])
       /\ Len(deq_log[t]) <= Len(enq_log)
       /\ \A i \in 1..Len(deq_log[t]) : deq_log[t][i].url = enq_log[i].url

\* Tasks of three depths have been dequeued, two of them waiting in the
\* queue together.
C4_Witness ==
  \E t \in Crawls :
    /\ Len(deq_log[t]) >= 4
    /\ deq_log[t][1].depth < deq_log[t][2].depth
    /\ deq_log[t][2].depth = deq_log[t][3].depth
    /\ deq_log[t][3].depth < deq_log[t][4].depth


\* C5: crawls are independent: a crawl dequeues only the tasks it enqueued
\* itself, and its total_pages counts only the URLs it discovered itself.
C5_CrawlsIndependent ==
  \A t \in Crawls :
    /\ \A i \in 1..Len(deq_log[t]) : deq_log[t][i].by = t
    /\ pc[t] = "crawled" =>
         sitemap[t].total_pages =
           Cardinality({enq_log[i].url : i \in {j \in 1..Len(enq_log) : enq_log[j].by = t}})

\* C6: the check-then-insert on the discovered-URL set is atomic: of the
\* attempts to enqueue one link URL against one frontier at most one is
\* accepted, and the URL is in the queue at most once.
C6_AtomicCheckThenInsert ==
  /\ \A u \in URLS :
       Cardinality({i \in 1..Len(enq_log) : enq_log[i].url = u /\ enq_log[i].src # ""}) <= 1
  /\ \A i, j \in 1..Len(url_queue) :
       (url_queue[i].depth > 0 /\ url_queue[j].depth > 0
        /\ url_queue[i].url = url_queue[j].url) => i = j


\* The status codes the specification calls retryable
RETRYABLE_STATUSES == {429, 500, 502, 503, 504}

\* The known block, challenge and soft-404 signatures
KNOWN_SIGNATURES == Range(ERROR_PATTERNS)

\* An answer with status 200 whose body holds a known signature
Blocked200(r) ==
  r.kind = "response" /\ r.status = 200 /\ r.body.text \in KNOWN_SIGNATURES

\* C7: statuses 429, 500, 502, 503 and 504 are retryable: a retrying fetch
\* whose last answer had one of these statuses has returned only after
\* MAX_RETRIES requests.
C7_RetryableStatusRetried ==
  (f_pc = "returned" /\ f_last.kind = "response"
   /\ f_last.status \in RETRYABLE_STATUSES) => f_requests = MAX_RETRIES

\* C8: an answer with status 200 and a known signature in its body is
\* retried up to MAX_RETRIES and then skipped: the fetch returns no content
\* for it, and no PageRecord is made of the page.
C8_BlockedContentSkipped ==
  /\ (f_pc = "returned" /\ Blocked200(f_last)) =>
       (f_requests = MAX_RETRIES /\ f_result.html = None)
  /\ Blocked200(f_last) => page_data = None

\* What C9 and C10 call a failure of an attempt
FailedAnswer(r) ==
  \/ r.kind # "response"
  \/ r.status # 200
  \/ r.body.text \in KNOWN_SIGNATURES
  \/ r.body.len <= MIN_HTML_LENGTH

\* C9 as stated: at most MAX_RETRIES requests, and the value returned after
\* a failure is (None, None).
C9_FailureValueNoneNone ==
  /\ f_requests <= MAX_RETRIES
  /\ (f_pc = "returned" /\ FailedAnswer(f_last)) =>
       f_result = [html |-> None, status |-> None]

\* C9, amended: one call of a retrying fetch issues at most MAX_RETRIES
\* requests and then returns; when the attempts are used up it returns
\* (None, None), and whenever it returns no content the status is None or,
\* in get_with_retry, the 403, 404, 500 or 503 of the answer it gave up on.
C9_AttemptsCapped ==
  /\ f_requests <= MAX_RETRIES
  /\ f_attempt <= MAX_RETRIES
  /\ (f_pc = "loop" /\ f_attempt = MAX_RETRIES) => f_requests = MAX_RETRIES
  /\ (f_pc = "returned" /\ f_attempt = MAX_RETRIES) =>
       f_result = [html |-> None, status |-> None]
  /\ (f_pc = "returned" /\ f_result.html = None) =>
       \/ f_result.status = None
       \/ /\ f_fn = "analyze"
          /\ f_last.status \in {403, 404, 500, 503}
          /\ f_result.status = Some(f_last.status)

\* Every attempt of a call has failed and the call has returned.
C9_Witness ==
  /\ f_pc = "returned"
  /\ f_requests = MAX_RETRIES /\ f_attempt = MAX_RETRIES
  /\ f_last.kind = "Timeout"

\* C10: backoff is exponential with jitter: the wait w after the failed
\* attempt i has 2^i <= w < 2^i + 1 seconds, and every failed attempt that
\* another attempt follows is followed by such a wait.
C10_ExponentialBackoff ==
  /\ \A k \in 1..Len(f_waits) :
       /\ Pow2(f_waits[k].attempt) * JitterSteps <= f_waits[k].wait
       /\ f_waits[k].wait < (Pow2(f_waits[k].attempt) + 1) * JitterSteps
  /\ (f_pc = "loop" /\ f_attempt < MAX_RETRIES) => Len(f_waits) = f_attempt


\* C11: after retry exhaustion a URL is permanently skipped: no fetch of a
\* URL is requested, by the crawl loop or by the analysis of the pages,
\* once all attempts of a fetch of it have failed in the run.
C11_ExhaustedNeverRefetched ==
  \A u \in ExhaustedUrls : u \notin late_requests

\* The run is over without an abort
RunOver == r_pc \in {"analyzed", "empty"}

\* pages_data holds a PageMetadata of url
HasPage(url) == BagIn([url |-> url], pages_data)

\* C12: a page's fetch failure never aborts the run: the crawl never ends
\* on an exception and leaves its loop only when the loop test fails, every
\* url to analyse is taken by a worker, and pages_data holds the
\* PageMetadata of every page that was fetched and parsed.
C12_FailureNeverAborts ==
  /\ pc[1] # "failed"
  /\ pc[1] \in {"finalize", "crawled"} => ~LoopGuard(url_queue, discovered_urls)
  /\ RunOver => /\ AllUrls(sitemap[1]) \subseteq processed_urls
                /\ \A u \in built : HasPage(u)
                /\ r_pc = "empty" => built = {}

\* The run is over; in the crawl the fetch of the second task failed and a
\* third task was processed; in the analysis the fetch of one page failed
\* and another page has its PageMetadata.
C12_Witness ==
  /\ r_pc = "analyzed"
  /\ Len(deq_log[1]) >= 3
  /\ [url |-> deq_log[1][2].url, phase |-> "crawl"] \in exhausted
  /\ \E u, v \in AllUrls(sitemap[1]) :
       /\ [url |-> u, phase |-> "analysis"] \in exhausted
       /\ ~HasPage(u)
       /\ HasPage(v)

\* A step of the run that is not a step of get_with_retry on thread k
StepNotOf(k) ==
  \/ RunFrontier \/ RunCrawlFetch \/ RunCrawlFetched \/ RunCrawled
  \/ \E j \in Fetchers \ {k} : GStep(j)
  \/ \E j \in PoolThreads \ {k} : WStart(j) \/ WSelenium(j) \/ WParse(j) \/ WCollect(j)

\* C14: backoff sleeps block only the issuing worker: while one fetch
\* sleeps between two attempts and tasks are pending (in the queue of the
\* frontier or among the futures not started), a step of another task can
\* be taken.
C14_SleepBlocksOnlyIssuer ==
  \A k \in Fetchers :
    (/\ g_pc[k] = "sleep"
     /\ \A j \in Fetchers \ {k} : g_pc[j] # "sleep"
     /\ (url_queue # <<>> \/ todo # {})) => ENABLED StepNotOf(k)


\* The fetch-and-parse tasks in flight
InFlight == {w \in SiteThreads : w_pc[w] = "work"}

\* C13: the worker pool is bounded: in every state of a run, a batch run
\* over several sites included, at most MAX_WORKERS fetch-and-parse tasks
\* are in flight.
C13_PoolBounded == Cardinality(InFlight) <= MAX_WORKERS

\* How many PageMetadata of url the batch holds, collected or returned
PagesOf(url) ==
  Cardinality({s \in SITES : BagIn([url |-> url], s_pages[s])})
  + Cardinality({w \in SiteThreads : w_pc[w] = "page" /\ w_url[w] = url})

\* C15: at most one PageMetadata is made per URL and a URL is analysed at
\* most once: of the workers handed the same URL one performs the fetch and
\* the parse and the others return nothing.
C15_OnePagePerUrl ==
  \A url \in SITES :
    /\ CopiesIn(url, analysed) <= 1
    /\ PagesOf(url) <= 1
    /\ \A s \in SITES : CopiesIn([url |-> url], s_pages[s]) <= 1
    /\ Cardinality({w \in InFlight : w_url[w] = url}) <= 1

\* Two workers were handed the same URL: one holds its PageMetadata and the
\* other returns nothing.
C15_Witness ==
  \E v, w \in SiteThreads :
    /\ v # w /\ w_url[v] = w_url[w]
    /\ w_pc[v] = "page" /\ w_pc[w] = "none"


\* The depth of the task on whose page the link of the i-th enqueue was found
SrcDepth(i) ==
  LET j == CHOOSE j \in 1..Len(enq_log) : enq_log[j].url = enq_log[i].src
  IN  enq_log[j].depth

\* The urls enqueued from the page of url src
EnqueuedFrom(src) ==
  {enq_log[i].url : i \in {j \in 1..Len(enq_log) : enq_log[j].src = src}}

\* C16: the internal links of the page at depth 0 that are not yet
\* discovered are enqueued, all of them and nothing else, at depth 1; a link
\* is enqueued one level below the page it is found on, and no link found
\* on a page at depth MAX_CRAWL_DEPTH is enqueued (with MAX_CRAWL_DEPTH = 1:
\* none of the links of the depth-1 pages).
C16_RootLinksAtDepthOne ==
  /\ \A i \in 1..Len(enq_log) :
       enq_log[i].src # "" =>
         /\ SrcDepth(i) < MAX_CRAWL_DEPTH
         /\ enq_log[i].depth = SrcDepth(i) + 1
  /\ \A t \in Crawls :
       (Len(deq_log[t]) = 1 /\ pc[t] \in {"links", "loop"}) =>
         /\ EnqueuedFrom(main_url[t]) = sitemap[t].internal_links \ {main_url[t]}
         /\ \A i \in 1..Len(enq_log) :
              enq_log[i].src = main_url[t] => enq_log[i].depth = 1

\* Two links of the root page were enqueued, and the loop is testing a new
\* internal link found on a page at the maximum depth.
C16_Witness ==
  \E t \in Crawls :
    /\ Cardinality(EnqueuedFrom(main_url[t])) >= 2
    /\ pc[t] = "enqueue_test"
    /\ cur[t].depth = MAX_CRAWL_DEPTH
    /\ EnqueueGuard("internal", link[t], discovered_urls, 0)
    /\ LinkType(link[t], main_url[t]) = "internal"

\* A url is absolute: it has a scheme and a network location
IsAbsolute(url) == Scheme(url) # "" /\ Netloc(url) # ""

\* C17: every link stored in the SiteMap has a url that is absolute, has
\* the scheme http or https and has no fragment, whatever the targets of
\* the anchors of the page are (relative, '#x', mailto:, tel:, javascript:,
\* absolute with a fragment).
C17_StoredUrlsNormalised ==
  \A url \in StoredUrls(l_sitemap) :
     /\ IsAbsolute(url)
     /\ Scheme(url) \in {"http", "https"}
     /\ ~Contains("#", url)

\* C18: every link the crawl stores in the SiteMap carries the link type
\* of the ordered list: same domain, internal; else a social domain,
\* social; else one of the four map patterns, maps; else a contact keyword
\* in the url or the anchor text, contact; else external.
C18_StoredTypeFollowsList ==
  l_pc = "stored" =>
    \A i \in 1..Len(l_links) :
       StoredTypes(l_sitemap, l_links[i].url) =
         {ClickableLinkType(l_links[i].url, l_links[i].anchor_text, PAGE_URL)}

\* The candidates of the four channels on one page
ChannelCandidates(page) ==
  SetOf(detect_direct_links(page)) \cup SetOf(detect_iframe_embeds(page))
    \cup SetOf(detect_javascript_maps(page))
    \cup SetOf(detect_structured_data_maps(page))

\* The pages of pages_data that kept their content
PagesWithContent == {m_pages[i] : i \in {j \in 1..Len(m_pages) : m_pages[j].html}}

\* C19: all_maps_links is the union, each url once, of the candidates of
\* the four channels (direct, iframe, script, structured data) over all
\* pages with retained content, and total_maps_found is the size of that
\* union.
C19_AggregateIsUnion ==
  m_pc = "done" =>
    LET union == UNION {ChannelCandidates(page) : page \in PagesWithContent}
    IN  /\ SetOf(maps_info.all_maps_links) = union
        /\ Len(maps_info.all_maps_links) = Cardinality(union)
        /\ maps_info.total_maps_found = Cardinality(union)

\* Two pages with content, every channel with a candidate, and a url that
\* two channels found
C19_Witness ==
  /\ m_pc = "done" /\ Cardinality(PagesWithContent) = 2
  /\ maps_info.iframe_embeds # <<>> /\ maps_info.structured_data_maps # <<>>
  /\ SetOf(maps_info.maps_links) \cap SetOf(maps_info.javascript_maps) # {}
  /\ maps_info.total_maps_found >= 3

\* C20: the primary link depends on the set of map urls only: whenever a
\* member of the aggregate matches a priority pattern, every order the
\* same set can be presented in selects the primary link this run selected.
C20_PrimaryOrderIndependent ==
  (/\ m_pc = "done"
   /\ \E u \in all_maps_found, n \in 1..Len(PRIORITY_PATTERNS) : MatchesPriority(n, u))
  => \A other \in Lists(all_maps_found) :
       select_primary_maps_link(other) = maps_info.primary_maps_link

\* The pages detect_all_google_maps takes as contact pages
ContactPages ==
  {page \in PagesWithContent :
     page.is_contact_page \/ Contains("contact", Lower(page.url))}

\* C21: after detection contact_page_maps holds exactly the map urls some
\* channel found on a contact page: a map url found on pages that are not
\* contact pages only is never in it, whatever the order of the pages.
C21_ContactSubsetExact ==
  m_pc = "done" =>
    maps_info.contact_page_maps = UNION {ChannelCandidates(page) : page \in ContactPages}

\* The class of the priority patterns a link matches first: 1 a place
\* form, 2 a directions form, 3 a generic map form, 4 none
PatternClass(a_link) ==
  IF MatchesPriority(1, a_link) \/ MatchesPriority(2, a_link) THEN 1
  ELSE IF MatchesPriority(3, a_link) \/ MatchesPriority(4, a_link) THEN 2
  ELSE IF MatchesPriority(5, a_link) \/ MatchesPriority(6, a_link) THEN 3
  ELSE 4

C23_StatusIffAggregate ==
  m_pc = "done" =>
    /\ (maps_info.maps_integration_status = "Integrated")
         <=> (maps_info.all_maps_links # <<>>)
    /\ maps_info.all_maps_links = <<>> =>
         /\ maps_info.maps_integration_status = "Not Found"
         /\ maps_info.primary_maps_link = ""

\* Pages with content were gone over and no channel found a map url
C23_Witness ==
  /\ m_pc = "done" /\ Len(m_pages) = 2
  /\ \A i \in 1..Len(m_pages) : m_pages[i].html
  /\ maps_info.all_maps_links = <<>>
  /\ maps_info.maps_integration_status = "Not Found"

\* The objects of the JSON-LD of the pages with content
JsonLdBlocks ==
  UNION {SetOf(page.json_ld) : page \in PagesWithContent}

\* A block with a geo pair and no map reference
GeoOnly(data) == HasGeo(data) /\ "hasMap" \notin DOMAIN data

\* What the priority order gives for a block: the map reference, else the
\* coordinate query, else the address search, else nothing
ByPriority(data) ==
  IF "hasMap" \in DOMAIN data THEN {data.hasMap}
  ELSE IF HasGeo(data) THEN {GEO_URL}
  ELSE IF "address" \in DOMAIN data THEN {ADDRESS_URL}
  ELSE {}

C25_TierByThresholds ==
  c_pc = "done" =>
    LET n == c_sitemap.total_pages
    IN  c_sitemap.website_structure_complexity =
          (CASE n >= 50 -> "Complex"
             [] n >= 20 /\ n < 50 -> "Moderate"
             [] n >= 6 /\ n < 20 -> "Simple"
             [] OTHER -> "Basic")

\* A SiteMap of 23 pages, with links and a depth, resolves to Moderate
C25_Witness ==
  /\ c_pc = "done" /\ c_sitemap.total_pages = 23
  /\ c_sitemap.internal_links # {} /\ c_sitemap.crawl_depth_reached = 1
  /\ c_sitemap.website_structure_complexity = "Moderate"

\* The frontier is empty or the page budget has been reached
FrontierSpent ==
  url_queue = <<>> \/ Cardinality(discovered_urls) >= MAX_PAGES_PER_SITE

\* C26: the crawl always reaches its end; it leaves its loop exactly when
\* the frontier is empty or the page budget has been reached; and every
\* accepted task is dequeued at most once: the i-th task dequeued is the
\* i-th task accepted.
C26_CrawlTerminates ==
  /\ <>(pc[1] = "crawled")
  /\ [][(pc[1] = "loop" /\ pc'[1] # "loop")
          => ((pc'[1] = "finalize") <=> FrontierSpent)]_vars
  /\ [](/\ Len(deq_log[1]) <= Len(enq_log)
        /\ \A i \in 1..Len(deq_log[1]) :
             /\ deq_log[1][i].url = enq_log[i].url
             /\ deq_log[1][i].depth = enq_log[i].depth)

\* The crawl has ended on its page budget, with tasks left in the queue
C26_Witness ==
  /\ pc[1] = "crawled" /\ url_queue # <<>>
  /\ Cardinality(discovered_urls) >= MAX_PAGES_PER_SITE
  /\ Len(deq_log[1]) >= 2

\* C27: every url handed to the analysis workers was accepted by the
\* frontier: whatever list of urls _analyze_all_discovered_pages makes of
\* the SiteMap of the crawl, it is a subset of discovered_urls (so no page
\* beyond MAX_CRAWL_DEPTH or beyond the page budget is analysed), and the
\* root url is in it.
C27_AnalysedWereAccepted ==
  pc[1] = "crawled" =>
    \A urls_to_analyze \in UrlsToAnalyze(AllUrls(sitemap[1])) :
       /\ urls_to_analyze \subseteq discovered_urls
       /\ main_url[1] \in urls_to_analyze

\* C28: whatever the order in which the page analyses of a site complete,
\* the first element of its pages_data, the record every main-page reader
\* takes (_extract_brand_name, extract_enhanced_metadata, the main status
\* of the report), is the record of the site's root url.
C28_FirstPageIsRoot ==
  \A site \in SITES : s_first[site] # "" => s_first[site] = site

\* C29: fetch_with_error_handling never waits after its final attempt,
\* whether the attempt failed by a request exception or by blocked content:
\* no sleep of a call follows the attempt of index max_retries - 1.
C29_NoWaitAfterFinalAttempt ==
  f_fn = "fetch" =>
    \A k \in 1..Len(f_waits) : f_waits[k].attempt < MAX_RETRIES - 1

\* C30: whenever at least one page was analysed, no collaborator raises
\* and no save fails, analyze_website_comprehensive runs every phase,
\* writes the summary report and the master JSON and returns a non-empty
\* summary; it returns {} only when there is no page data or a
\* collaborator (or a save) raised.
C30_SummaryWhenPagesAnalysed ==
  /\ (r_pc = "returned" /\ r_raised \notin {"collaborator", "save"}) =>
       /\ r_return = "summary_data"
       /\ {"summary_report", "master_json"} \subseteq r_files
  /\ r_return = "empty" =>
       pages_data = EmptyBag \/ r_raised \in {"collaborator", "save"}

=============================================================================
